---- MODULE Spec2Model ----
(***************************************************************************)
(* Urban Flooding Digital Twin: the catchment risk simulation engine.      *)
(*                                                                         *)
(* The program computes on Python floats.  Here every real quantity is a   *)
(* fixed-point integer, and every arithmetic step rounds to the nearest    *)
(* unit of its format, as a float operation rounds to the nearest float:   *)
(*                                                                         *)
(*   C, i_mmhr, A_km2         tenths          (0.7 is 7, 20.0 mm/hr is 200)*)
(*   Q                        micro  (10^-6)  m^3/s                        *)
(*   Qcap, Qcap_used          micro m^3/s, or nano (10^-9) where a run     *)
(*                            needs capacities below the 1e-6 floor; the   *)
(*                            operators take the number of capacity units  *)
(*                            per micro as their first argument            *)
(*   required, scale          micro  (10^-6)                               *)
(*   L, L_for_risk            milli  (10^-3)                               *)
(*   exp, log, R, max_r       1/10000 (10^-4)                              *)
(*   round(x, 3)              milli  (10^-3)                               *)
(*                                                                         *)
(* All values stay below 2^31; the inputs are chosen so that no product    *)
(* leaves that range.                                                      *)
(***************************************************************************)
EXTENDS Integers, Sequences, FiniteSets, TLC

VARIABLES
    impl,            \* which simulate_catchment ran: "none", "adaptive", "raw"
    rain_mmhr,       \* argument: sequence of intensities (tenths of mm/hr)
    timestamps_utc,  \* argument: sequence of timestamp labels
    C,               \* argument: runoff coefficient (tenths)
    A_km2,           \* argument: catchment area (tenths of km^2)
    Qcap_m3s,        \* argument: drainage capacity (micro m^3/s)
    pc,              \* "call" before the call, "done" after a return,
                     \* "raised" after an exception
    result,          \* the returned dict, or NoResult
    rain_other,      \* second rainfall series of a paired run
    result_other,    \* result of the paired run
    fn,              \* pure-function harness: function applied
    fn_args,         \* its arguments
    fn_ret,          \* its return value(s)
    catchment_X,     \* two-catchment run: parameters of catchment X,
    catchment_Y,     \* and of catchment Y (capacities in nano m^3/s)
    catchments,      \* resolver argument: the list of catchment records
    lon,             \* resolver argument: longitude of the point
    lat,             \* resolver argument: latitude of the point
    found,           \* what find_catchment_for_point returned
    calls,           \* concurrent run: per call its function, arguments,
                     \* position and return value
    frames,          \* concurrent run: the local variables of the calls
    request,         \* POST /risk/point: the request
    db,              \* POST /risk/point: what the database holds
    response,        \* POST /risk/point: the response or the exception
    effects,         \* POST /risk/point: the operations performed
    batch_args,      \* run_batch_simulation: the arguments
    batch_store,     \* run_batch_simulation: the catchments in the database
    fs,              \* run_batch_simulation: directories and files on disk
    batch_out,       \* run_batch_simulation: outcome and operations performed
    monitor_args,    \* run_realtime_risk_assessment: the arguments
    monitor_store,   \* run_realtime_risk_assessment: the stored catchments
    monitor_out,     \* run_realtime_risk_assessment: outcome and result list
    simulations,     \* run_realtime_risk_assessment: the documents saved
    materials_file,  \* load_pipe_materials: what the materials file holds
    _PIPE_MANNING_CACHE,  \* load_pipe_materials: the module-level cache
    load_calls,      \* load_pipe_materials: the calls made so far
    monitoring_args, \* continuous_monitoring: interval_minutes, max_iterations
    iteration,       \* continuous_monitoring: the local iteration
    monitoring_pc,   \* continuous_monitoring: position in the loop
    monitoring_log,  \* continuous_monitoring: fetches, assessments and sleeps
    import_data,     \* import_spatial_catchments: the input list
    import_store,    \* import_spatial_catchments: the catchment ids stored
    save_failures,   \* import_spatial_catchments: records whose write fails
    import_out       \* import_spatial_catchments: the returned counts

vars == <<impl, rain_mmhr, timestamps_utc, C, A_km2, Qcap_m3s, pc, result,
          rain_other, result_other, fn, fn_args, fn_ret,
          catchment_X, catchment_Y, catchments, lon, lat, found,
          calls, frames, request, db, response, effects,
          batch_args, batch_store, fs, batch_out,
          monitor_args, monitor_store, monitor_out, simulations,
          materials_file, _PIPE_MANNING_CACHE, load_calls,
          monitoring_args, iteration, monitoring_pc, monitoring_log,
          import_data, import_store, save_failures, import_out>>

simVars  == <<impl, rain_mmhr, timestamps_utc, C, A_km2, Qcap_m3s, pc, result>>
pairVars == <<rain_other, result_other>>
fnVars   == <<fn, fn_args, fn_ret>>
crossVars == <<catchment_X, catchment_Y>>
resolveVars == <<catchments, lon, lat, found>>
concVars == <<calls, frames>>
endpointVars == <<request, db, response, effects>>
batchVars == <<batch_args, batch_store, fs, batch_out>>
importVars == <<import_data, import_store, save_failures, import_out>>
loopVars == <<monitoring_args, iteration, monitoring_pc, monitoring_log>>
cacheVars == <<materials_file, _PIPE_MANNING_CACHE, load_calls>>
monitorVars == <<monitor_args, monitor_store, monitor_out, simulations>>
serviceVars == <<batchVars, monitorVars, cacheVars, loopVars, importVars>>
coreVars ==
    <<simVars, pairVars, fnVars, crossVars, resolveVars, concVars, endpointVars>>

-----------------------------------------------------------------------------
(* Number formats *)

Milli == 10^3
Micro == 10^6
Fine  == 10^4

InMicro == 10^0                   \* capacities held in micro m^3/s
InNano  == 10^3                   \* capacities held in nano m^3/s

Min(a, b) == IF a <= b THEN a ELSE b
Max(a, b) == IF a >= b THEN a ELSE b
Abs(a)    == IF a >= 0 THEN a ELSE -a

RECURSIVE Pow2(_)
Pow2(n) == IF n = 0 THEN 1 ELSE 2 * Pow2(n - 1)

(* a / b rounded to the nearest integer (b > 0). *)
RoundDiv(a, b) ==
    LET q == a \div b
        r == a % b
    IN  IF r >= b - r THEN q + 1 ELSE q

(* <<quotient, remainder>> of a * b by c without forming a * b, taking b   *)
(* eight at a time (a, b >= 0, 0 < c < 2^27).                               *)
RECURSIVE MulDivQR(_, _, _)
MulDivQR(a, b, c) ==
    IF b = 0 THEN <<0, 0>>
    ELSE LET h  == MulDivQR(a, b \div 8, c)
             lo == b % 8
             t  == 8 * h[2] + (a % c) * lo
         IN  <<8 * h[1] + (a \div c) * lo + t \div c, t % c>>

(* a * b / c rounded to the nearest integer (b >= 0, c > 0, any sign of a). *)
MulDiv(a, b, c) ==
    LET qr == MulDivQR(Abs(a), b, c)
        n  == IF qr[2] >= c - qr[2] THEN qr[1] + 1 ELSE qr[1]
    IN  IF a >= 0 THEN n ELSE -n

(* k * d, clamped to +-2*10^9 where the product would leave the integers. *)
SatMul(k, d) ==
    IF k = 0 \/ d = 0 THEN 0
    ELSE IF Abs(d) > (2 * 10^9) \div Abs(k)
         THEN (IF (k > 0) = (d > 0) THEN 2 * 10^9 ELSE -(2 * 10^9))
         ELSE k * d

(* Python round(x, 3) of a value held in units of 1/(1000 * d): the nearest *)
(* milli, an exact tie going to the even neighbour.                         *)
round3(x, d) ==
    LET q == x \div d
        r == x % d
    IN  IF 2 * r > d \/ (2 * r = d /\ q % 2 = 1) THEN q + 1 ELSE q

RECURSIVE SeqMax(_)
SeqMax(s) ==
    IF Len(s) = 1 THEN s[1] ELSE Max(s[1], SeqMax(Tail(s)))

-----------------------------------------------------------------------------
(* math.exp and math.log *)

(* Exponents above this make math.exp raise OverflowError                  *)
(* (709.782712893384, in milli).                                           *)
math_exp_raises(x) == x > 709782

(* 1 + r + r^2/2 + ... + r^8/8! by Horner's rule, r and the value in Fine. *)
RECURSIVE ExpSeries(_, _)
ExpSeries(r, j) ==
    IF j > 8 THEN Fine ELSE Fine + RoundDiv(r * ExpSeries(r, j + 1), j * Fine)

(* math.exp(x), x in milli, value in Fine.  e^x = 2^n * e^r with           *)
(* |r| <= ln(2)/2.  Below e^-12 the value is 0 at this resolution; above   *)
(* e^12 it is held at 2*10^9, where 1/(1 + e^x) is 0 at this resolution.   *)
math_exp(x) ==
    IF x < -12000 THEN 0
    ELSE IF x > 12000 THEN 2 * 10^9
    ELSE LET n == RoundDiv(x * 1000, 693147)
             r == RoundDiv(x * 1000 - n * 693147, 100)
             p == ExpSeries(r, 1)
         IN  IF n >= 0 THEN p * Pow2(n) ELSE RoundDiv(p, Pow2(-n))

(* The largest e with 1000 * 2^e <= x (x >= 1000, in milli). *)
RECURSIVE Halvings(_)
Halvings(x) == IF x < 2000 THEN 0 ELSE 1 + Halvings(x \div 2)

(* t + t^3/3 + t^5/5 + ... + t^9/9, from the term p = t^j on; 10^-5. *)
RECURSIVE AtanhSeries(_, _, _)
AtanhSeries(p, t2, j) ==
    IF j > 9 THEN 0
    ELSE RoundDiv(p, j) + AtanhSeries(RoundDiv(p * t2, 10^5), t2, j + 2)

(* atanh(t), t and the value in 10^-5. *)
Atanh(t) == AtanhSeries(t, RoundDiv(t * t, 10^5), 1)

(* ln(m) = 2 atanh((m - 1)/(m + 1)) for 1 <= m < 2, m and the value in 10^-5. *)
LogMantissa(m) == 2 * Atanh(MulDiv(m - 10^5, 10^5, m + 10^5))

(* ln(x) for x = 2^e * m, x in milli, value in Fine. *)
LogParts(x, e) ==
    RoundDiv(RoundDiv(e * 693147, 10) + LogMantissa(MulDiv(x, 100, Pow2(e))), 10)

(* math.log(x) for x >= 1.0, x in milli, value in Fine. *)
math_log(x) == LogParts(x, Halvings(x))

(* math.log1p(x) = log(1 + x), x >= 0 in milli. *)
math_log1p(x) == math_log(1000 + x)

-----------------------------------------------------------------------------
(* digital_twin/services/risk_algorithm.py *)

HEADROOM == 25                    \* 2.5, in tenths
CAP_BOOST_MAX == 50               \* 50.0
USE_LOG_COMPRESSION == TRUE
L_LOG_RANGE == 40                 \* 40.0
I_TARGET_EMPTY == 20              \* 2.0 mm/hr, in tenths
QCAP_FLOOR == 1                   \* 1e-6 m^3/s, in micro
K_SIMULATE == 3                   \* k=3.0 passed by simulate_catchment
K_DEFAULT == 8                    \* k: float = 8.0
RATIONAL_COEFF == 278             \* 0.278, in milli

(* Faulty variant: the discharge rounded to three decimals inside the function. *)
q_runoff_m3s_rounded(c, i_mmhr, a) ==
    round3(RATIONAL_COEFF * c * i_mmhr * a, 1000) * 1000

(* Q = 0.278 * C * i * A.  C, i, A in tenths; Q in micro m^3/s (exact). *)
q_runoff_m3s(c, i_mmhr, a) == RATIONAL_COEFF * c * i_mmhr * a

(* Faulty variant: the exponent without the shift to the midpoint, -k * L. *)
risk_exponent_unshifted(L, k) == SatMul(-k, L)

(* The exponent -k * (L - 1.0), in milli. *)
risk_exponent(L, k) == SatMul(-k, L - 1000)

(* risk_from_loading raises when math.exp does. *)
risk_from_loading_raises(L, k) == math_exp_raises(risk_exponent(L, k))

(* Faulty variant: the sign of the exponent lost, 1 / (1 + exp(k * (L - 1))). *)
risk_from_loading_flipped(L, k) ==
    RoundDiv(Fine * Fine, Fine + math_exp(SatMul(k, L - 1000)))

(* Faulty variant: the reciprocal forgotten, 1 + exp(-k * (L - 1)). *)
risk_from_loading_noinverse(L, k) ==
    Fine + math_exp(SatMul(-k, L - 1000))

(* 1.0 / (1.0 + math.exp(-k * (L - 1.0))).  L in milli, value in Fine. *)
risk_from_loading(L, k) ==
    RoundDiv(Fine * Fine, Fine + math_exp(risk_exponent(L, k)))

(* Faulty variant: the excess above 1 subtracted instead of added. *)
_compress_L_for_risk_inverted(L) ==
    IF L <= 1000 THEN L
    ELSE 1000 - RoundDiv(math_log1p(L - 1000) * 1000,
                         math_log(1000 + L_LOG_RANGE * 1000))

(* L <= 1 unchanged; above, 1 + log1p(L - 1) / log(1 + L_LOG_RANGE). *)
(* L and the value in milli.                                          *)
_compress_L_for_risk(L) ==
    IF L <= 1000 THEN L
    ELSE 1000 + RoundDiv(math_log1p(L - 1000) * 1000,
                         math_log(1000 + L_LOG_RANGE * 1000))

(* Lines 89-92: the near-peak intensity. *)
i_target(rain) == IF rain # <<>> THEN SeqMax(rain) ELSE I_TARGET_EMPTY

(* Faulty variant: the test required > 1.0 dropped, so that a capacity above *)
(* the target is scaled down.                                                *)
capacity_scale_unguarded(Q_target, Qcap) ==
    IF Qcap > 0 /\ Q_target > 0
    THEN IF Q_target >= (CAP_BOOST_MAX \div 10) * Qcap * HEADROOM
         THEN CAP_BOOST_MAX * Micro
         ELSE MulDiv(Q_target, 10 * Micro, Qcap * HEADROOM)
    ELSE Micro

(* Lines 95-102: scale (micro), from Q_target and Qcap in one unit.         *)
(* required = Q_target / (Qcap * HEADROOM) is formed only where it is below *)
(* CAP_BOOST_MAX; HEADROOM is in tenths, so required > 1.0 is               *)
(* 10 * Q_target > Qcap * HEADROOM and required >= CAP_BOOST_MAX is         *)
(* 10 * Q_target >= CAP_BOOST_MAX * Qcap * HEADROOM.                        *)
capacity_scale(Q_target, Qcap) ==
    IF Qcap > 0 /\ Q_target > 0 /\ Q_target > (Qcap * HEADROOM) \div 10
    THEN IF Q_target >= (CAP_BOOST_MAX \div 10) * Qcap * HEADROOM
         THEN CAP_BOOST_MAX * Micro
         ELSE MulDiv(Q_target, 10 * Micro, Qcap * HEADROOM)
    ELSE Micro

(* Faulty variant: the capacity adapted to the last intensity of the series instead *)
(* of its maximum.                                                          *)
adaptive_capacity_last(unit, rain, c, a, Qcap) ==
    LET last     == IF rain # <<>> THEN rain[Len(rain)] ELSE I_TARGET_EMPTY
        Q_target == unit * q_runoff_m3s(c, last, a)
    IN  Max(MulDiv(Qcap, capacity_scale(Q_target, Qcap), Micro),
            unit * QCAP_FLOOR)

(* Lines 88-104: the effective capacity Qcap_used = max(Qcap * scale, 1e-6), *)
(* Qcap and the value in capacity units, unit of them to the micro.          *)
adaptive_capacity(unit, rain, c, a, Qcap) ==
    LET Q_target == unit * q_runoff_m3s(c, i_target(rain), a)
    IN  Max(MulDiv(Qcap, capacity_scale(Q_target, Qcap), Micro),
            unit * QCAP_FLOOR)

(* zip(rain_mmhr, timestamps_utc) yields this many pairs. *)
zip_len(rain, ts) == Min(Len(rain), Len(ts))

(* Faulty variant: max_r overwritten by the latest R. *)
running_max_latest(max_r, R) == R

(* max_r = max(max_r, R) *)
running_max(max_r, R) == IF R > max_r THEN R ELSE max_r

(* The dict appended to series; Q in micro, L in milli, R in Fine. *)
series_point(t, i, Q, L, R) ==
    [t |-> t, i |-> i, Qrunoff |-> round3(Q, 1000), L |-> round3(L, 1),
     R |-> round3(R, 10)]

NoResult == [status |-> "none"]
Returned(series, max_r) ==
    [status |-> "ok", series |-> series, max_risk |-> round3(max_r, 10)]
Raised(exc) == [status |-> exc]

(* One pass of the for loop at lines 107-125, then the rest of the loop. *)
RECURSIVE adaptive_loop(_, _, _, _, _, _, _, _, _)
adaptive_loop(unit, j, rain, ts, c, a, Qcap_used, series, max_r) ==
    IF j > zip_len(rain, ts) THEN Returned(series, max_r)
    ELSE LET Q == q_runoff_m3s(c, rain[j], a)
             L == MulDiv(unit * Q, Milli, Qcap_used)
             L_for_risk == IF USE_LOG_COMPRESSION
                           THEN _compress_L_for_risk(L) ELSE L
             R == risk_from_loading(L_for_risk, K_SIMULATE)
         IN  IF risk_from_loading_raises(L_for_risk, K_SIMULATE)
             THEN Raised("OverflowError")
             ELSE adaptive_loop(unit, j + 1, rain, ts, c, a, Qcap_used,
                                Append(series, series_point(ts[j], rain[j], Q, L, R)),
                                running_max(max_r, R))

(* risk_algorithm.simulate_catchment, Qcap in capacity units. *)
simulate_catchment(unit, rain, ts, c, a, Qcap) ==
    adaptive_loop(unit, 1, rain, ts, c, a,
                  adaptive_capacity(unit, rain, c, a, Qcap), <<>>, 0)

(* Lines 107-125 once, for intensity i and timestamp t: the locals series *)
(* and max_r after the pass, or the exception it raises.                  *)
loop_iteration(unit, i, t, c, a, Qcap_used, series, max_r) ==
    LET Q == q_runoff_m3s(c, i, a)
        L == MulDiv(unit * Q, Milli, Qcap_used)
        L_for_risk == IF USE_LOG_COMPRESSION THEN _compress_L_for_risk(L) ELSE L
        R == risk_from_loading(L_for_risk, K_SIMULATE)
    IN  IF risk_from_loading_raises(L_for_risk, K_SIMULATE)
        THEN Raised("OverflowError")
        ELSE [status |-> "next",
              series |-> Append(series, series_point(t, i, Q, L, R)),
              max_r  |-> running_max(max_r, R)]

-----------------------------------------------------------------------------
(* src/urban_flooding/domain/simulation.py (the same code as dt/model.py) *)

L_ZERO_CAPACITY == 1000000000     \* 1e6, in milli

(* L = Q / Qcap_m3s if Qcap_m3s > 0 else 1e6 *)
raw_loading(Q, Qcap) ==
    IF Qcap > 0 THEN MulDiv(Q, Milli, Qcap) ELSE L_ZERO_CAPACITY

RECURSIVE raw_loop(_, _, _, _, _, _, _, _)
raw_loop(j, rain, ts, c, a, Qcap, series, max_r) ==
    IF j > zip_len(rain, ts) THEN Returned(series, max_r)
    ELSE LET Q == q_runoff_m3s(c, rain[j], a)
             L == raw_loading(Q, Qcap)
             R == risk_from_loading(L, K_DEFAULT)
         IN  IF risk_from_loading_raises(L, K_DEFAULT)
             THEN Raised("OverflowError")
             ELSE raw_loop(j + 1, rain, ts, c, a, Qcap,
                           Append(series, series_point(ts[j], rain[j], Q, L, R)),
                           running_max(max_r, R))

(* domain.simulation.simulate_catchment *)
raw_simulate_catchment(rain, ts, c, a, Qcap) ==
    raw_loop(1, rain, ts, c, a, Qcap, <<>>, 0)

-----------------------------------------------------------------------------
(* digital_twin/spatial/spatial_utils.py                                   *)
(*                                                                         *)
(* Coordinates are integers on a small grid.  A catchment record is        *)
(* [catchment_id, A_km2, geometry, bounds]: geometry is a GeoJSON polygon  *)
(* [type, coordinates] with one closed convex ring, a malformed geometry,  *)
(* or NoGeometry (the key absent, None or empty); bounds is the            *)
(* location.bounds box or NoBounds; A_km2 is in tenths, NaN where the      *)
(* record has no A_km2.                                                    *)

None       == [catchment_id |-> "None"]              \* Python None
NotCalled  == [catchment_id |-> "(not called)"]
NoGeometry == [type |-> "None", coordinates |-> <<>>]
NoBounds   == [min_lon |-> 1, max_lon |-> 0, min_lat |-> 1, max_lat |-> 0]
NaN        == -1                                     \* no A_km2 in the record

(* shape(geom) raises: not a GeoJSON geometry type, or a ring of fewer     *)
(* than 4 coordinates ("A linearring requires at least 4 coordinates").    *)
shape_raises(geom) ==
    \/ geom.type # "Polygon"
    \/ Len(geom.coordinates) < 4

(* Lines 135-141: the record gets a row in the GeoDataFrame. *)
has_shape(c) == c.geometry # NoGeometry /\ ~shape_raises(c.geometry)

(* Faulty variant: a record without usable geometry ends the loop (break *)
(* for continue), so the records after it are lost.                      *)
RECURSIVE load_rows_break(_, _)
load_rows_break(cs, j) ==
    IF j > Len(cs) THEN <<>>
    ELSE IF has_shape(cs[j]) THEN <<cs[j]>> \o load_rows_break(cs, j + 1)
    ELSE <<>>

(* Lines 133-142: the loop over catchments from index j, the rows kept. *)
RECURSIVE load_rows(_, _)
load_rows(cs, j) ==
    IF j > Len(cs) THEN <<>>
    ELSE IF has_shape(cs[j]) THEN <<cs[j]>> \o load_rows(cs, j + 1)
    ELSE load_rows(cs, j + 1)

(* load_catchments_gdf: the rows of the GeoDataFrame, in list order. *)
load_catchments_gdf(cs) == load_rows(cs, 1)

(* Faulty variant: the shapely geometry stored into the caller's record  *)
(* (c['geometry'] = shp) instead of into a copy.                         *)
record_after_load_inplace(c) ==
    IF has_shape(c)
    THEN [c EXCEPT !.geometry = [type |-> "shapely.Polygon",
                                 coordinates |-> c.geometry.coordinates]]
    ELSE c

(* Line 142: {**c, 'geometry': shp} builds a new dict; the record c of the *)
(* caller's list is as it was.                                             *)
record_after_load(c) == c

(* The caller's list after load_catchments_gdf has run over it. *)
catchments_after_load(cs) == [j \in 1..Len(cs) |-> record_after_load(cs[j])]

RECURSIVE SeqMin(_)
SeqMin(s) ==
    IF Len(s) = 1 THEN s[1] ELSE Min(s[1], SeqMin(Tail(s)))

(* geometry.bounds: minx, miny, maxx, maxy of the ring. *)
geometry_bounds(geom) ==
    LET xs == [j \in 1..Len(geom.coordinates) |-> geom.coordinates[j][1]]
        ys == [j \in 1..Len(geom.coordinates) |-> geom.coordinates[j][2]]
    IN  [minx |-> SeqMin(xs), maxx |-> SeqMax(xs),
         miny |-> SeqMin(ys), maxy |-> SeqMax(ys)]

(* Lines 169-170: row.minx <= lon <= row.maxx and row.miny <= lat <= row.maxy *)
in_bounds(b, x, y) ==
    b.minx <= x /\ x <= b.maxx /\ b.miny <= y /\ y <= b.maxy

(* (a - o) x (b - o) *)
cross(o, a, b) ==
    (a[1] - o[1]) * (b[2] - o[2]) - (a[2] - o[2]) * (b[1] - o[1])

(* geometry.contains(Point(x, y)): the point lies in the interior of the  *)
(* polygon, strictly on one side of every edge of its convex ring; a     *)
(* point on the boundary is not contained.                                *)
contains(geom, x, y) ==
    LET ring  == geom.coordinates
        sides == {cross(ring[j], ring[j + 1], <<x, y>>) : j \in 1..(Len(ring) - 1)}
    IN  (\A d \in sides : d > 0) \/ (\A d \in sides : d < 0)

(* Faulty variant: the rows that pass the bounds filter, contains(pt) not *)
(* applied.                                                              *)
matching_rows_bounds_only(gdf, x, y) ==
    SelectSeq(gdf, LAMBDA c : in_bounds(geometry_bounds(c.geometry), x, y))

(* Lines 169-173: the rows that pass the bounds filter and contain pt. *)
matching_rows(gdf, x, y) ==
    SelectSeq(gdf, LAMBDA c : /\ in_bounds(geometry_bounds(c.geometry), x, y)
                              /\ contains(c.geometry, x, y))

(* Faulty variant: no sort, the first match in list order is taken. *)
first_rows_unsorted(gdf, matches) == {matches[1]}

(* Lines 177-180: the rows that sort_values(by='A_km2') can put first: a  *)
(* row of least A_km2, NaN sorting last; the order among equal keys is    *)
(* not fixed by the sort.  Without an A_km2 column in the frame there is  *)
(* no sort and the first match stays first.                               *)
first_rows_sorted(gdf, matches) ==
    LET rows     == {matches[j] : j \in 1..Len(matches)}
        numbered == {c \in rows : c.A_km2 # NaN}
    IN  IF \A j \in 1..Len(gdf) : gdf[j].A_km2 = NaN THEN {matches[1]}
        ELSE IF numbered = {} THEN rows
        ELSE {c \in numbered : \A d \in numbered : c.A_km2 <= d.A_km2}

(* find_catchment_for_point: the set of records the call can return, None *)
(* where it returns None.  The returned dict carries the row's fields and *)
(* its geometry as GeoJSON again, the content of the source record.       *)
find_catchment_for_point(cs, x, y) ==
    LET gdf == load_catchments_gdf(cs)
    IN  IF gdf = <<>> THEN {None}
        ELSE IF matching_rows(gdf, x, y) = <<>> THEN {None}
        ELSE first_rows_sorted(gdf, matching_rows(gdf, x, y))

-----------------------------------------------------------------------------
(* Inputs *)

MaxLen == 3                       \* longest rainfall series and timestamp list

RainValues == {0, 1, 50, 200}     \* 0, 0.1, 5 and 20 mm/hr

TimestampLabels ==
    <<"T00:00Z", "T01:00Z", "T02:00Z", "T03:00Z", "T04:00Z", "T05:00Z",
      "T06:00Z", "T07:00Z">>

RainSeries(n) == UNION {[1..m -> RainValues] : m \in 0..n}
Timestamps(n) == {SubSeq(TimestampLabels, 1, m) : m \in 0..n}

cp(c, a, q) == [C |-> c, A_km2 |-> a, Qcap_m3s |-> q]

(* Catchment parameters the specification allows: C in [0,1], A > 0, Qcap >= 0. *)
ValidCatchments ==
    { cp(7, 20, 3000000),        \* C=0.7, A=2.0 km^2, Qcap=3.0 m^3/s
      cp(9, 12, 500000),         \* C=0.9, A=1.2, Qcap=0.5
      cp(9, 12, 10000),          \* C=0.9, A=1.2, Qcap=0.01
      cp(8, 10, 5000000),        \* C=0.8, A=1.0, Qcap=5.0
      cp(0, 12, 500000),         \* C=0
      cp(10, 1, 0),              \* C=1.0, A=0.1, Qcap=0
      cp(9, 4, 0),               \* C=0.9, A=0.4, Qcap=0
      cp(1, 1, 0) }              \* C=0.1, A=0.1, Qcap=0

(* Parameters outside it. *)
InvalidCatchments ==
    { cp(11, 12, 500000),        \* C=1.1
      cp(-1, 12, 500000),        \* C=-0.1
      cp(-1, 4, 0),              \* C=-0.1, Qcap=0
      cp(9, 0, 500000),          \* A=0
      cp(9, -12, 500000) }       \* A=-1.2

Catchments == ValidCatchments \cup InvalidCatchments

-----------------------------------------------------------------------------
(* Spec: one call of simulate_catchment on arguments drawn from the inputs. *)

PairIdle  == rain_other = <<>> /\ result_other = NoResult
FnIdle    == fn = "none" /\ fn_args = <<>> /\ fn_ret = <<>>
CrossIdle == catchment_X = cp(0, 0, 0) /\ catchment_Y = cp(0, 0, 0)
ResolveIdle == catchments = <<>> /\ lon = 0 /\ lat = 0 /\ found = NotCalled
ConcIdle == calls = <<>> /\ frames = <<>>
EndpointIdle ==
    /\ request = [lon |-> 0, lat |-> 0, rainfall_event_id |-> "None",
                  authorization |-> "absent"]
    /\ db = [catchments |-> <<>>, rainfall_events |-> {}]
    /\ response = [status_code |-> 0, raised |-> "not sent"]
    /\ effects = {}

NotRun == [status |-> "not run", ret |-> "None", log |-> <<>>]
BatchIdle ==
    /\ batch_args = [rain_mmhr |-> <<>>, timestamps_utc |-> <<>>,
                     print_header |-> TRUE, output_file |-> "None",
                     append |-> FALSE]
    /\ batch_store = <<>>
    /\ fs = [dirs |-> {}, files |-> {}]
    /\ batch_out = NotRun
NotAssessed == [status |-> "not run", results |-> <<>>]
MonitorIdle ==
    /\ monitor_args = [rainfall_event |-> [event_id |-> "None", rain_mmhr |-> <<>>,
                                           timestamps_utc |-> <<>>],
                       catchment_ids |-> <<>>, risk_threshold |-> 0]
    /\ monitor_store = <<>>
    /\ monitor_out = NotAssessed
    /\ simulations = <<>>
CacheIdle ==
    materials_file = "missing" /\ _PIPE_MANNING_CACHE = {} /\ load_calls = <<>>
LoopIdle ==
    /\ monitoring_args = [interval_minutes |-> 0, max_iterations |-> <<>>]
    /\ iteration = 0
    /\ monitoring_pc = "idle"
    /\ monitoring_log = <<>>
NotImported == [status |-> "not run", imported |-> 0, updated |-> 0, skipped |-> 0]
ImportIdle ==
    /\ import_data = <<>> /\ import_store = {} /\ save_failures = {}
    /\ import_out = NotImported
ServicesIdle == BatchIdle /\ MonitorIdle /\ CacheIdle /\ LoopIdle /\ ImportIdle

SimUnused == C = 0 /\ A_km2 = 0 /\ Qcap_m3s = 0
SimArgsIdle ==
    /\ impl = "none" /\ result = NoResult
    /\ rain_mmhr = <<>> /\ timestamps_utc = <<>>
    /\ SimUnused
SimIdle == SimArgsIdle /\ pc = "idle"

Init ==
    /\ impl = "none"
    /\ pc = "call"
    /\ result = NoResult
    /\ rain_mmhr \in RainSeries(MaxLen)
    /\ timestamps_utc \in Timestamps(MaxLen)
    /\ \E p \in Catchments :
          C = p.C /\ A_km2 = p.A_km2 /\ Qcap_m3s = p.Qcap_m3s
    /\ PairIdle
    /\ FnIdle
    /\ CrossIdle
    /\ ResolveIdle
    /\ ConcIdle
    /\ EndpointIdle
    /\ ServicesIdle

Finish(which, res) ==
    /\ impl' = which
    /\ result' = res
    /\ pc' = IF res.status = "ok" THEN "done" ELSE "raised"
    /\ UNCHANGED <<rain_mmhr, timestamps_utc, C, A_km2, Qcap_m3s>>

SimulateAdaptive ==
    /\ pc = "call"
    /\ Finish("adaptive",
              simulate_catchment(InMicro, rain_mmhr, timestamps_utc, C, A_km2,
                                 Qcap_m3s))
    /\ UNCHANGED <<pairVars, fnVars, crossVars, resolveVars, concVars, endpointVars, serviceVars>>

SimulateRaw ==
    /\ pc = "call"
    /\ Finish("raw",
              raw_simulate_catchment(rain_mmhr, timestamps_utc, C, A_km2, Qcap_m3s))
    /\ UNCHANGED <<pairVars, fnVars, crossVars, resolveVars, concVars, endpointVars, serviceVars>>

Next == SimulateAdaptive \/ SimulateRaw

Spec == Init /\ [][Next]_vars

-----------------------------------------------------------------------------
(* PairSpec: the same catchment simulated on two rainfall series. *)

MaxPairLen == 2                   \* longest series of a paired run

PairRainValues == {0, 50, 200}
PairRainSeries == UNION {[1..m -> PairRainValues] : m \in 0..MaxPairLen}

PairInit ==
    /\ impl = "none"
    /\ pc = "call"
    /\ result = NoResult
    /\ result_other = NoResult
    /\ rain_mmhr \in PairRainSeries
    /\ rain_other \in PairRainSeries
    /\ timestamps_utc = SubSeq(TimestampLabels, 1, MaxPairLen)
    /\ \E p \in ValidCatchments :
          C = p.C /\ A_km2 = p.A_km2 /\ Qcap_m3s = p.Qcap_m3s
    /\ FnIdle
    /\ CrossIdle
    /\ ResolveIdle
    /\ ConcIdle
    /\ EndpointIdle
    /\ ServicesIdle

PairFinish(which, res, res_other) ==
    /\ impl' = which
    /\ result' = res
    /\ result_other' = res_other
    /\ pc' = IF res.status = "ok" /\ res_other.status = "ok"
             THEN "done" ELSE "raised"
    /\ UNCHANGED <<rain_mmhr, rain_other, timestamps_utc, C, A_km2, Qcap_m3s>>

PairAdaptive ==
    /\ pc = "call"
    /\ PairFinish("adaptive",
          simulate_catchment(InMicro, rain_mmhr, timestamps_utc, C, A_km2,
                             Qcap_m3s),
          simulate_catchment(InMicro, rain_other, timestamps_utc, C, A_km2,
                             Qcap_m3s))
    /\ UNCHANGED <<fnVars, crossVars, resolveVars, concVars, endpointVars, serviceVars>>

PairRaw ==
    /\ pc = "call"
    /\ PairFinish("raw",
          raw_simulate_catchment(rain_mmhr, timestamps_utc, C, A_km2, Qcap_m3s),
          raw_simulate_catchment(rain_other, timestamps_utc, C, A_km2, Qcap_m3s))
    /\ UNCHANGED <<fnVars, crossVars, resolveVars, concVars, endpointVars, serviceVars>>

PairNext == PairAdaptive \/ PairRaw

PairSpec == PairInit /\ [][PairNext]_vars

-----------------------------------------------------------------------------
(* CrossSpec: one rainfall series simulated on two catchments X and Y.  The *)
(* capacities are held in nano m^3/s, to reach below the 1e-6 floor.        *)

MaxCrossLen == 2                  \* longest series of a two-catchment run

CrossRainValues == {1, 50}        \* 0.1 and 5 mm/hr
CrossRainSeries == UNION {[1..m -> CrossRainValues] : m \in 1..MaxCrossLen}

CrossCatchments ==
    { cp(c, 1, q) : c \in {1, 10}, q \in {1, 100, 1000, 10^4} }

CrossInit ==
    /\ impl = "none"
    /\ pc = "call"
    /\ result = NoResult
    /\ result_other = NoResult
    /\ rain_other = <<>>
    /\ rain_mmhr \in CrossRainSeries
    /\ timestamps_utc = SubSeq(TimestampLabels, 1, MaxCrossLen)
    /\ SimUnused
    /\ catchment_X \in CrossCatchments
    /\ catchment_Y \in CrossCatchments
    /\ FnIdle
    /\ ResolveIdle
    /\ ConcIdle
    /\ EndpointIdle
    /\ ServicesIdle

CrossSimulate(p) ==
    simulate_catchment(InNano, rain_mmhr, timestamps_utc, p.C, p.A_km2, p.Qcap_m3s)

CrossAdaptive ==
    /\ pc = "call"
    /\ impl' = "adaptive"
    /\ result' = CrossSimulate(catchment_X)
    /\ result_other' = CrossSimulate(catchment_Y)
    /\ pc' = IF result'.status = "ok" /\ result_other'.status = "ok"
             THEN "done" ELSE "raised"
    /\ UNCHANGED <<rain_mmhr, rain_other, timestamps_utc, C, A_km2, Qcap_m3s,
                   crossVars, fnVars, resolveVars, concVars, endpointVars, serviceVars>>

CrossNext == CrossAdaptive

CrossSpec == CrossInit /\ [][CrossNext]_vars

-----------------------------------------------------------------------------
(* ResolveSpec: one call of find_catchment_for_point on a list of records *)
(* drawn from the pool below and a point of the grid.                     *)

MaxCatchments == 3                \* longest list of catchment records

rec(id, area, geom, bounds) ==
    [catchment_id |-> id, A_km2 |-> area, geometry |-> geom, bounds |-> bounds]

rect(x0, y0, x1, y1) ==
    [type |-> "Polygon",
     coordinates |-> << <<x0, y0>>, <<x1, y0>>, <<x1, y1>>, <<x0, y1>>, <<x0, y0>> >>]

box(x0, x1, y0, y1) ==
    [min_lon |-> x0, max_lon |-> x1, min_lat |-> y0, max_lat |-> y1]

catchmentA == rec("A", 10, rect(0, 0, 4, 4), NoBounds)
catchmentB == rec("B", 20, rect(2, 2, 8, 8), NoBounds)      \* overlaps A
catchmentN == rec("N", 5, rect(2, 2, 4, 4), NoBounds)       \* nested in A and B
catchmentT ==                                               \* a triangle
    rec("T", 7, [type |-> "Polygon",
                 coordinates |-> << <<4, 0>>, <<8, 0>>, <<8, 4>>, <<4, 0>> >>],
        NoBounds)
catchmentD == rec("D", 10, rect(0, 0, 4, 4), NoBounds)      \* same area as A
catchmentU == rec("U", NaN, rect(2, 2, 8, 8), NoBounds)     \* no A_km2
catchmentZ == rec("Z", 3, NoGeometry, box(0, 2, 5, 8))      \* bounding box only
catchmentM1 ==                                              \* ring of two points
    rec("M1", 1, [type |-> "Polygon",
                  coordinates |-> << <<0, 0>>, <<8, 8>> >>], box(0, 8, 0, 8))
catchmentM2 ==                                              \* unknown type
    rec("M2", 1, [type |-> "Blob", coordinates |-> <<>>], NoBounds)

CatchmentPool ==
    { catchmentA, catchmentB, catchmentN, catchmentT, catchmentD, catchmentU,
      catchmentZ, catchmentM1, catchmentM2 }

CatchmentLists == UNION {[1..m -> CatchmentPool] : m \in 0..MaxCatchments}

Points ==
    { <<1, 1>>, <<3, 3>>, <<5, 3>>, <<5, 1>>, <<7, 1>>, <<1, 6>>, <<4, 3>> }

ResolveInit ==
    /\ SimArgsIdle
    /\ PairIdle
    /\ FnIdle
    /\ CrossIdle
    /\ ConcIdle
    /\ EndpointIdle
    /\ ServicesIdle
    /\ pc = "call"
    /\ found = NotCalled
    /\ catchments \in CatchmentLists
    /\ \E pt \in Points : lon = pt[1] /\ lat = pt[2]

(* find_catchment_for_point(catchments, lon, lat) *)
Resolve ==
    /\ pc = "call"
    /\ found' \in find_catchment_for_point(catchments, lon, lat)
    /\ catchments' = catchments_after_load(catchments)
    /\ pc' = "done"
    /\ UNCHANGED <<impl, rain_mmhr, timestamps_utc, C, A_km2, Qcap_m3s, result,
                   pairVars, fnVars, crossVars, concVars, endpointVars, serviceVars, lon, lat>>

ResolveNext == Resolve

ResolveSpec == ResolveInit /\ [][ResolveNext]_vars

-----------------------------------------------------------------------------
(* ConcSpec: calls of simulate_catchment and find_catchment_for_point run *)
(* concurrently, one statement group at a time, in any interleaving.  The *)
(* variables of a call are locals of its own invocation; the module-level *)
(* names the two functions read (HEADROOM, CAP_BOOST_MAX,                 *)
(* USE_LOG_COMPRESSION, L_LOG_RANGE) are never assigned.                  *)

MaxCalls == 2                     \* calls in flight

CallIds == 1..MaxCalls

call_args(rain, p, cs, pt) ==
    [rain_mmhr |-> rain, timestamps_utc |-> SubSeq(TimestampLabels, 1, Len(rain)),
     C |-> p.C, A_km2 |-> p.A_km2, Qcap_m3s |-> p.Qcap_m3s,
     catchments |-> cs, lon |-> pt[1], lat |-> pt[2]]

SimulateCalls ==
    { [fn |-> "simulate_catchment", args |-> call_args(rain, p, <<>>, <<0, 0>>),
       pc |-> "enter", ret |-> NoResult] :
        rain \in {<<50, 200>>, <<200, 50>>},
        p \in {cp(7, 20, 3000000), cp(9, 12, 500000)} }

ResolveCalls ==
    { [fn |-> "find_catchment_for_point",
       args |-> call_args(<<>>, cp(0, 0, 0), cs, pt),
       pc |-> "enter", ret |-> NoResult] :
        cs \in {<<catchmentA, catchmentB>>, <<catchmentN, catchmentM1, catchmentA>>},
        pt \in {<<3, 3>>, <<1, 1>>} }

NoLocals ==
    [Qcap_used |-> 0, j |-> 0, series |-> <<>>, max_r |-> 0,
     gdf |-> <<>>, matches |-> <<>>]

(* Faulty variant: the locals kept in one module-level place that every *)
(* call uses.                                                           *)
frame_of_shared(c) == 1

(* The locals of call c live in the frame of its own invocation. *)
frame_of(c) == c

locals(c) == frames[frame_of(c)]

ConcInit ==
    /\ SimIdle
    /\ PairIdle
    /\ FnIdle
    /\ CrossIdle
    /\ ResolveIdle
    /\ EndpointIdle
    /\ ServicesIdle
    /\ calls \in [CallIds -> SimulateCalls \cup ResolveCalls]
    /\ frames = [c \in CallIds |-> NoLocals]

at(c, f, where) == calls[c].fn = f /\ calls[c].pc = where

goto(c, where) == calls' = [calls EXCEPT ![c].pc = where]

return(c, value, where) ==
    calls' = [calls EXCEPT ![c].pc = where, ![c].ret = value]

store(c, new) == frames' = [frames EXCEPT ![frame_of(c)] = new]

otherVarsConc ==
    <<simVars, pairVars, fnVars, crossVars, resolveVars, endpointVars, serviceVars>>

(* simulate_catchment lines 85-104: series, max_r and Qcap_used. *)
SimEnter(c) ==
    /\ at(c, "simulate_catchment", "enter")
    /\ store(c, [locals(c) EXCEPT
                    !.series = <<>>, !.max_r = 0, !.j = 1,
                    !.Qcap_used = adaptive_capacity(InMicro,
                        calls[c].args.rain_mmhr, calls[c].args.C,
                        calls[c].args.A_km2, calls[c].args.Qcap_m3s)])
    /\ goto(c, "loop")
    /\ UNCHANGED otherVarsConc

(* One pass of the loop, lines 107-125; an exception ends the call. *)
SimStep(c) ==
    /\ at(c, "simulate_catchment", "loop")
    /\ locals(c).j <= zip_len(calls[c].args.rain_mmhr, calls[c].args.timestamps_utc)
    /\ LET a  == calls[c].args
           f  == locals(c)
           it == loop_iteration(InMicro, a.rain_mmhr[f.j], a.timestamps_utc[f.j],
                                a.C, a.A_km2, f.Qcap_used, f.series, f.max_r)
       IN  IF it.status = "next"
           THEN /\ store(c, [f EXCEPT !.series = it.series, !.max_r = it.max_r,
                                      !.j = f.j + 1])
                /\ UNCHANGED calls
           ELSE /\ return(c, it, "raised")
                /\ UNCHANGED frames
    /\ UNCHANGED otherVarsConc

(* Line 127: return {"series": series, "max_risk": round(max_r, 3)} *)
SimReturn(c) ==
    /\ at(c, "simulate_catchment", "loop")
    /\ locals(c).j > zip_len(calls[c].args.rain_mmhr, calls[c].args.timestamps_utc)
    /\ return(c, Returned(locals(c).series, locals(c).max_r), "done")
    /\ UNCHANGED <<frames, otherVarsConc>>

(* find_catchment_for_point lines 163-165: gdf, None if it is empty. *)
ResolveLoad(c) ==
    /\ at(c, "find_catchment_for_point", "enter")
    /\ LET gdf == load_catchments_gdf(calls[c].args.catchments)
       IN  /\ store(c, [locals(c) EXCEPT !.gdf = gdf])
           /\ IF gdf = <<>> THEN return(c, None, "done") ELSE goto(c, "filter")
    /\ UNCHANGED otherVarsConc

(* Lines 166-175: matches, None if there is none. *)
ResolveFilter(c) ==
    /\ at(c, "find_catchment_for_point", "filter")
    /\ LET matches == matching_rows(locals(c).gdf, calls[c].args.lon,
                                    calls[c].args.lat)
       IN  /\ store(c, [locals(c) EXCEPT !.matches = matches])
           /\ IF matches = <<>> THEN return(c, None, "done") ELSE goto(c, "select")
    /\ UNCHANGED otherVarsConc

(* Lines 177-183: the first row after the sort is returned. *)
ResolveSelect(c) ==
    /\ at(c, "find_catchment_for_point", "select")
    /\ \E r \in first_rows_sorted(locals(c).gdf, locals(c).matches) :
          return(c, r, "done")
    /\ UNCHANGED <<frames, otherVarsConc>>

ConcNext ==
    \E c \in CallIds :
        \/ SimEnter(c)
        \/ SimStep(c)
        \/ SimReturn(c)
        \/ ResolveLoad(c)
        \/ ResolveFilter(c)
        \/ ResolveSelect(c)

ConcSpec == ConcInit /\ [][ConcNext]_vars

-----------------------------------------------------------------------------
(* src/api/v1/endpoints/risk.py: POST /risk/point.  A response is a       *)
(* record of the HTTP status code and the exception that produced it;     *)
(* status_code 0 means that no response is sent at all.  effects is the   *)
(* set of operations on the database, the weather service and the         *)
(* simulation that the request has performed.                             *)

ok_response == [status_code |-> 200, raised |-> ""]

HTTPException(status_code) == [status_code |-> status_code, raised |-> "HTTPException"]

(* An exception that is no HTTPException leaves the handler: the server *)
(* answers 500.                                                         *)
unhandled(exc) == [status_code |-> 500, raised |-> exc]

outcome(resp, done) == [response |-> resp, effects |-> done]

(* The names that digital_twin/services/fetch_realtime_weather.py defines. *)
fetch_realtime_weather_names ==
    {"fetch_weather_observation_data", "extract_rainfall_series",
     "create_rainfall_event_from_api", "get_rainfall_event_from_api",
     "assess_rainfall_severity"}

(* risk.py line 25 imports realtime_monitor, whose line 11 is             *)
(* from digital_twin.services.fetch_realtime_weather import WeatherAPIClient *)
import_raises == "WeatherAPIClient" \notin fetch_realtime_weather_names

(* RealTimeFloodMonitor.__init__(self, db, weather_client): no defaults. *)
RealTimeFloodMonitor_init_raises(kwargs) ==
    ~({"db", "weather_client"} \subseteq kwargs)

(* run_realtime_risk_assessment(self, rainfall_event, catchment_ids=None, *)
(* risk_threshold=0.5)                                                   *)
run_realtime_risk_assessment_raises(kwargs) ==
    \/ ~(kwargs \subseteq {"rainfall_event", "catchment_ids", "risk_threshold"})
    \/ "rainfall_event" \notin kwargs

(* Depends(verify_token): the status codes of the refusal, none when the *)
(* token is the configured one.  Without an Authorization header         *)
(* HTTPBearer refuses with 403, or 401 in later releases of the library. *)
verify_token(authorization) ==
    IF authorization = "absent" THEN {401, 403}
    ELSE IF authorization = "invalid" THEN {403}
    ELSE {}

(* Lines 132-160: the event id selection and the event lookup. *)
event_effects(rainfall_event_id) ==
    IF rainfall_event_id = "None" THEN {"get_rainfall_event"}
    ELSE IF rainfall_event_id \in {"current", "forecast"}
         THEN {"weather_fetch", "get_rainfall_event"}
         ELSE {"get_rainfall_event"}

(* Lines 122-221, once the catchment lookup has returned catchment. *)
after_lookup(req, catchment) ==
    IF catchment = None
    THEN outcome(HTTPException(404), {"list_catchments"})
    ELSE IF run_realtime_risk_assessment_raises({"rainfall_eventID", "catchment_id"})
         THEN outcome(unhandled("TypeError"),
                      {"list_catchments"} \cup event_effects(req.rainfall_event_id))
         ELSE outcome(ok_response,
                      {"list_catchments", "simulate_catchment", "save_simulation"}
                          \cup event_effects(req.rainfall_event_id))

(* The handler, lines 108-221: the outcomes it can have. *)
risk_for_point(req, d) ==
    IF RealTimeFloodMonitor_init_raises({"db"})
    THEN {outcome(unhandled("TypeError"), {})}
    ELSE {after_lookup(req, c) :
            c \in find_catchment_for_point(d.catchments, req.lon, req.lat)}

(* A request from the import of the application to the response. *)
serve(req, d) ==
    IF import_raises
    THEN {outcome([status_code |-> 0, raised |-> "ImportError"], {})}
    ELSE IF verify_token(req.authorization) # {}
         THEN {outcome(HTTPException(s), {}) : s \in verify_token(req.authorization)}
         ELSE risk_for_point(req, d)

Requests ==
    { [lon |-> pt[1], lat |-> pt[2], rainfall_event_id |-> e, authorization |-> a] :
        pt \in Points,
        e \in {"None", "design_2yr", "current", "forecast", "unknown"},
        a \in {"absent", "invalid", "valid"} }

Stores ==
    { [catchments |-> cs, rainfall_events |-> es] :
        cs \in {<<>>, <<catchmentA, catchmentB>>, <<catchmentZ>>,
                <<catchmentM1, catchmentN>>},
        es \in {{}, {"design_2yr"}} }

EndpointInit ==
    /\ SimArgsIdle
    /\ PairIdle
    /\ FnIdle
    /\ CrossIdle
    /\ ResolveIdle
    /\ ConcIdle
    /\ ServicesIdle
    /\ pc = "request"
    /\ request \in Requests
    /\ db \in Stores
    /\ response = [status_code |-> 0, raised |-> "not sent"]
    /\ effects = {}

Serve ==
    /\ pc = "request"
    /\ \E out \in serve(request, db) :
          /\ response' = out.response
          /\ effects' = out.effects
    /\ pc' = "responded"
    /\ UNCHANGED <<impl, rain_mmhr, timestamps_utc, C, A_km2, Qcap_m3s, result,
                   pairVars, fnVars, crossVars, resolveVars, concVars,
                   serviceVars, request, db>>

EndpointNext == Serve

EndpointSpec == EndpointInit /\ [][EndpointNext]_vars

-----------------------------------------------------------------------------
(* src/digital_twin/services/realtime_monitor.py                          *)
(* RealTimeFloodMonitor.run_realtime_risk_assessment; max_risk in milli.  *)

(* Lines 77-88: the risk level category of max_risk. *)
risk_level(max_risk) ==
    IF max_risk >= 800 THEN "Very High"
    ELSE IF max_risk >= 600 THEN "High"
    ELSE IF max_risk >= 400 THEN "Medium"
    ELSE IF max_risk >= 200 THEN "Low"
    ELSE "Very Low"

MAX_CAPACITY == 50                \* max_capacity=50, m^3/s
DEFAULT_SAMPLE == 10              \* [:10]

(* FloodingDatabase.get_catchment: find_one on catchment_id, <<>> for None. *)
get_catchment(coll, cid) ==
    IF \E j \in 1..Len(coll) : coll[j].catchment_id = cid
    THEN <<coll[CHOOSE j \in 1..Len(coll) :
                    /\ coll[j].catchment_id = cid
                    /\ \A h \in 1..(j - 1) : coll[h].catchment_id # cid]>>
    ELSE <<>>

(* .sort("Qcap_m3s", DESCENDING) *)
RECURSIVE sort_by_capacity(_)
sort_by_capacity(docs) ==
    IF docs = <<>> THEN <<>>
    ELSE LET j == CHOOSE j \in 1..Len(docs) :
                      \A h \in 1..Len(docs) :
                          \/ docs[j].Qcap_m3s > docs[h].Qcap_m3s
                          \/ (docs[j].Qcap_m3s = docs[h].Qcap_m3s /\ j <= h)
         IN  <<docs[j]>> \o sort_by_capacity(
                 SubSeq(docs, 1, j - 1) \o SubSeq(docs, j + 1, Len(docs)))

within_capacity(doc, max_capacity) == doc.Qcap_m3s <= max_capacity * Micro

(* FloodingDatabase.get_catchments_by_capacity(max_capacity=...) *)
get_catchments_by_capacity(coll, max_capacity) ==
    sort_by_capacity(SelectSeq(coll, LAMBDA d : within_capacity(d, max_capacity)))

(* Lines 55-63: the catchments to evaluate; catchment_ids is <<>> for *)
(* None and for the empty list.                                      *)
RECURSIVE fetch_catchments(_, _, _)
fetch_catchments(coll, ids, j) ==
    IF j > Len(ids) THEN <<>>
    ELSE get_catchment(coll, ids[j]) \o fetch_catchments(coll, ids, j + 1)

catchments_to_evaluate(coll, ids) ==
    IF ids # <<>>
    THEN fetch_catchments(coll, ids, 1)
    ELSE SubSeq(get_catchments_by_capacity(coll, MAX_CAPACITY), 1,
                Min(DEFAULT_SAMPLE,
                    Len(get_catchments_by_capacity(coll, MAX_CAPACITY))))

(* Lines 90-94: the timestamp of the first point whose R equals max_risk. *)
max_risk_time(sim, ts) ==
    IF \E j \in 1..Len(sim.series) : sim.series[j].R = sim.max_risk
    THEN ts[CHOOSE j \in 1..Len(sim.series) :
                /\ sim.series[j].R = sim.max_risk
                /\ \A h \in 1..(j - 1) : sim.series[h].R # sim.max_risk]
    ELSE "None"

(* Lines 95-108: the result entry of one catchment. *)
risk_result(catchment, sim, args) ==
    [catchment_id |-> catchment.catchment_id,
     catchment_name |-> catchment.name,
     max_risk |-> sim.max_risk,
     risk_level |-> risk_level(sim.max_risk),
     max_risk_time |-> max_risk_time(sim, args.rainfall_event.timestamps_utc),
     alert |-> sim.max_risk >= args.risk_threshold,
     details |-> [A_km2 |-> catchment.A_km2, Qcap_m3s |-> catchment.Qcap_m3s,
                  C |-> catchment.C]]

(* Lines 111-123 with FloodingDatabase.save_simulation: the document     *)
(* inserted; no k is passed, so the parameter keeps its default.         *)
save_simulation(simulation_id, catchment, args, sim) ==
    [simulation_id |-> simulation_id, catchment_id |-> catchment.catchment_id,
     rain_mmhr |-> args.rainfall_event.rain_mmhr,
     timestamps_utc |-> args.rainfall_event.timestamps_utc,
     C |-> catchment.C, A_km2 |-> catchment.A_km2,
     Qcap_m3s |-> catchment.Qcap_m3s, k |-> K_DEFAULT,
     series |-> sim.series, max_risk |-> sim.max_risk,
     rainfall_event_id |-> args.rainfall_event.event_id,
     notes |-> risk_level(sim.max_risk)]

(* results.sort(key=max_risk, reverse=True): stable, ties in list order. *)
RECURSIVE sort_results(_)
sort_results(rs) ==
    IF rs = <<>> THEN <<>>
    ELSE LET j == CHOOSE j \in 1..Len(rs) :
                      \A h \in 1..Len(rs) :
                          \/ rs[j].max_risk > rs[h].max_risk
                          \/ (rs[j].max_risk = rs[h].max_risk /\ j <= h)
         IN  <<rs[j]>> \o sort_results(
                 SubSeq(rs, 1, j - 1) \o SubSeq(rs, j + 1, Len(rs)))

assessment(status, results, saved) ==
    [status |-> status, results |-> results, saved |-> saved]

(* Lines 68-123 for the catchments from j on; an exception of          *)
(* simulate_catchment leaves the method with the documents saved so far. *)
RECURSIVE assess_loop(_, _, _, _, _), assess_step(_, _, _, _, _, _)
assess_loop(args, cs, j, results, saved) ==
    IF j > Len(cs) THEN assessment("ok", sort_results(results), saved)
    ELSE assess_step(args, cs, j, results, saved,
                     simulate_catchment(InMicro, args.rainfall_event.rain_mmhr,
                                        args.rainfall_event.timestamps_utc,
                                        cs[j].C, cs[j].A_km2, cs[j].Qcap_m3s))

assess_step(args, cs, j, results, saved, sim) ==
    IF sim.status # "ok" THEN assessment(sim.status, <<>>, saved)
    ELSE assess_loop(args, cs, j + 1,
                     Append(results, risk_result(cs[j], sim, args)),
                     Append(saved, save_simulation(Len(saved) + 1, cs[j], args, sim)))

(* run_realtime_risk_assessment(rainfall_event, catchment_ids, risk_threshold) *)
(* on a database holding the catchments coll and the simulations already saved.            *)
run_realtime_risk_assessment(args, coll, saved) ==
    assess_loop(args, catchments_to_evaluate(coll, args.catchment_ids), 1,
                <<>>, saved)

-----------------------------------------------------------------------------
(* src/digital_twin/spatial/spatial_utils.py: pipe hydraulics.  Invert    *)
(* levels and lengths in millimetres, grades in thousandths of a percent; *)
(* an Optional[float] is <<>> for None and <<x>> for the number x.        *)

MIN_PIPE_LENGTH == 10             \* 0.01 m
NOMINAL_GRADE == 100              \* 0.1 %
MAX_GRADE == 50000                \* 50 %

(* (rise / length) * 100.0 *)
grade_pct(rise, length) == MulDiv(rise, 100 * Milli, length)

(* calculate_pipe_grade(inv_us, inv_ds, length_m) *)
calculate_pipe_grade(inv_us, inv_ds, length_m) ==
    IF inv_us = <<>> \/ inv_ds = <<>> \/ length_m = <<>> THEN <<>>
    ELSE IF length_m[1] <= MIN_PIPE_LENGTH THEN <<>>
    ELSE IF grade_pct(inv_us[1] - inv_ds[1], length_m[1]) <= 0
         THEN <<NOMINAL_GRADE>>
    ELSE IF grade_pct(inv_us[1] - inv_ds[1], length_m[1]) > MAX_GRADE
         THEN <<MAX_GRADE>>
    ELSE <<grade_pct(inv_us[1] - inv_ds[1], length_m[1])>>

-----------------------------------------------------------------------------
(* src/batch_simulation.py: run_batch_simulation.  The outcome is a       *)
(* record of the exception raised ("ok" when the call returns), the       *)
(* returned path and the log of the operations performed, in order; fs    *)
(* holds the directories and, per file, its lines.                        *)

GeneratedFile == "simulation_outputs/batch_sim_<stamp>.txt"

text(s) == [text |-> s]

(* Lines 48-53: the path of the output file and the directory created. *)
output_path(args) ==
    IF args.output_file = "None" THEN GeneratedFile ELSE args.output_file

mkdir_log(args) == IF args.output_file = "None" THEN <<"mkdir">> ELSE <<>>

after_mkdir(args, disk) ==
    IF args.output_file = "None"
    THEN [disk EXCEPT !.dirs = @ \cup {"simulation_outputs"}]
    ELSE disk

(* Lines 64-70: the header lines. *)
header_lines(args, cs) ==
    IF args.print_header
    THEN <<text("=== Batch Catchment Simulation ==="), text("Catchments found"),
           text("Timesteps"), text("Rain (mm/hr)"),
           text("----------------------------------")>>
    ELSE <<>>

(* Line 67 reads timestamps_utc[0] and timestamps_utc[-1]. *)
header_raises(args) == args.print_header /\ args.timestamps_utc = <<>>

(* Lines 72-89 for the catchments from j on: the lines emitted and the *)
(* log, or the exception of the simulation that raised.               *)
RECURSIVE batch_loop(_, _, _, _, _), batch_step(_, _, _, _, _, _)
batch_loop(args, cs, j, lines, log) ==
    IF j > Len(cs) THEN [status |-> "ok", lines |-> lines, log |-> log]
    ELSE batch_step(args, cs, j, lines, log,
                    simulate_catchment(InMicro, args.rain_mmhr,
                                       args.timestamps_utc, cs[j].C,
                                       cs[j].A_km2,
                                       cs[j].Qcap_m3s))

(* Lines 80-89 for catchment j, sim being what simulate_catchment did. *)
batch_step(args, cs, j, lines, log, sim) ==
    IF sim.status # "ok"
    THEN [status |-> sim.status, lines |-> lines, log |-> Append(log, "simulate")]
    ELSE batch_loop(args, cs, j + 1,
                    Append(lines, text(">>> Catchment")) \o sim.series
                        \o <<text("Max risk")>>,
                    Append(log, "simulate"))

(* Lines 54 and 93-95: the file opened in mode "a" or "w" and written. *)
lines_before(disk, path, append) ==
    IF append /\ \E f \in disk.files : f.name = path
    THEN (CHOOSE f \in disk.files : f.name = path).lines
    ELSE <<>>

write_file(disk, path, append, lines) ==
    [disk EXCEPT !.files =
        {f \in @ : f.name # path}
            \cup {[name |-> path,
                   lines |-> lines_before(disk, path, append) \o lines]}]

batch_result(status, ret, log, disk) ==
    [status |-> status, ret |-> ret, log |-> log, fs |-> disk]

(* Lines 91-97, run being what the loop over the catchments did. *)
batch_finish(args, disk, run) ==
    IF run.status # "ok"
    THEN batch_result(run.status, "None", run.log, disk)
    ELSE batch_result("ok", output_path(args),
                      run.log \o <<"close_db", "write">>,
                      write_file(disk, output_path(args), args.append, run.lines))

(* Lines 48-97. *)
batch_body(args, cs, disk) ==
    IF header_raises(args)
    THEN batch_result("IndexError", "None", mkdir_log(args) \o <<"open_db">>,
                      after_mkdir(args, disk))
    ELSE batch_finish(args, after_mkdir(args, disk),
                      batch_loop(args, cs, 1,
                                 header_lines(args, cs),
                                 mkdir_log(args) \o <<"open_db">>))

(* Faulty variant: the length check of lines 45-46 left out. *)
run_batch_simulation_unchecked(args, cs, disk) ==
    batch_body(args, cs, disk)

(* run_batch_simulation(rain_mmhr, timestamps_utc, print_header=,        *)
(* output_file=, append=) on a database holding cs and a disk.   *)
run_batch_simulation(args, cs, disk) ==
    IF Len(args.rain_mmhr) # Len(args.timestamps_utc)
    THEN batch_result("ValueError", "None", <<>>, disk)
    ELSE batch_body(args, cs, disk)

-----------------------------------------------------------------------------
(* BatchSpec: one call of run_batch_simulation. *)

MaxBatchLen == 2                  \* longest rainfall series and timestamp list

stored(id, p) ==
    [catchment_id |-> id, name |-> id, C |-> p.C, A_km2 |-> p.A_km2,
     Qcap_m3s |-> p.Qcap_m3s]

BatchStores ==
    { <<>>,
      <<stored("c1", cp(7, 20, 3000000))>>,
      <<stored("c1", cp(7, 20, 3000000)), stored("c2", cp(9, 12, 10000))>> }

BatchArgs ==
    { [rain_mmhr |-> rain, timestamps_utc |-> ts, print_header |-> h,
       output_file |-> f, append |-> a] :
        rain \in RainSeries(MaxBatchLen), ts \in Timestamps(MaxBatchLen),
        h \in BOOLEAN, f \in {"None", "out.txt"}, a \in BOOLEAN }

Disks ==
    { [dirs |-> {}, files |-> {}],
      [dirs |-> {}, files |-> {[name |-> "out.txt", lines |-> <<text("old")>>]}] }

BatchInit ==
    /\ SimIdle
    /\ PairIdle
    /\ FnIdle
    /\ CrossIdle
    /\ ResolveIdle
    /\ ConcIdle
    /\ EndpointIdle
    /\ ImportIdle
    /\ LoopIdle
    /\ CacheIdle
    /\ MonitorIdle
    /\ batch_args \in BatchArgs
    /\ batch_store \in BatchStores
    /\ fs \in Disks
    /\ batch_out = NotRun

RunBatch ==
    /\ batch_out = NotRun
    /\ LET out == run_batch_simulation(batch_args, batch_store, fs)
       IN  /\ batch_out' = [status |-> out.status, ret |-> out.ret, log |-> out.log]
           /\ fs' = out.fs
    /\ UNCHANGED <<coreVars, importVars, loopVars, cacheVars, monitorVars, batch_args, batch_store>>

BatchNext == RunBatch

BatchSpec == BatchInit /\ [][BatchNext]_vars

-----------------------------------------------------------------------------
(* MonitorSpec: one call of run_realtime_risk_assessment. *)

MaxEventLen == 2                  \* longest rainfall series of an event

CatchmentIds ==
    <<"c01", "c02", "c03", "c04", "c05", "c06", "c07", "c08", "c09", "c10",
      "c11", "c12", "c13", "c14">>

(* Stored catchment j: capacity 4j m^3/s, so that c13 and c14 exceed 50. *)
stored_catchment(j) == stored(CatchmentIds[j], cp(7, 20, 4 * j * Micro))

StoreSizes == {0, 3, 10, 11, 12, 14}

MonitorStores ==
    { [j \in 1..n |-> stored_catchment(j)] : n \in StoreSizes }
        \cup { [j \in 1..n |-> stored_catchment(n + 1 - j)] : n \in StoreSizes }

RainfallEvents ==
    { [event_id |-> "design_2yr", rain_mmhr |-> rain,
       timestamps_utc |-> SubSeq(TimestampLabels, 1, Len(rain))] :
        rain \in RainSeries(MaxEventLen) }

MonitorArgs ==
    { [rainfall_event |-> ev, catchment_ids |-> ids, risk_threshold |-> 500] :
        ev \in RainfallEvents,
        ids \in {<<>>, <<"c03">>, <<"c12", "zz", "c01">>} }

MonitorInit ==
    /\ SimIdle
    /\ PairIdle
    /\ FnIdle
    /\ CrossIdle
    /\ ResolveIdle
    /\ ConcIdle
    /\ EndpointIdle
    /\ ImportIdle
    /\ LoopIdle
    /\ CacheIdle
    /\ BatchIdle
    /\ monitor_args \in MonitorArgs
    /\ monitor_store \in MonitorStores
    /\ monitor_out = NotAssessed
    /\ simulations = <<>>

Assess ==
    /\ monitor_out = NotAssessed
    /\ LET out == run_realtime_risk_assessment(monitor_args, monitor_store,
                                               simulations)
       IN  /\ monitor_out' = [status |-> out.status, results |-> out.results]
           /\ simulations' = out.saved
    /\ UNCHANGED <<coreVars, importVars, loopVars, cacheVars, batchVars, monitor_args, monitor_store>>

MonitorNext == Assess

MonitorSpec == MonitorInit /\ [][MonitorNext]_vars

-----------------------------------------------------------------------------
(* src/digital_twin/spatial/spatial_utils.py: load_pipe_materials.  A     *)
(* mapping is the set of its entries [code, manning_n] (n in 1e-3); the   *)
(* materials file is named by what it holds.                              *)

(* Lines 77-87: what reading the file gives: the mapping, or an exception *)
(* other than FileNotFoundError, which the function does not catch.       *)
read_materials(content) ==
    IF content = "missing" THEN [status |-> "ok", mapping |-> {}]
    ELSE IF content = "no valid codes" THEN [status |-> "ok", mapping |-> {}]
    ELSE IF content = "concrete"
         THEN [status |-> "ok", mapping |-> {[code |-> "RC", manning_n |-> 13]}]
    ELSE IF content = "concrete and pvc"
         THEN [status |-> "ok",
               mapping |-> {[code |-> "RC", manning_n |-> 13],
                            [code |-> "PVC", manning_n |-> 9]}]
    ELSE [status |-> "JSONDecodeError", mapping |-> {}]

(* Line 73: if _PIPE_MANNING_CACHE and not refresh; an empty dict is false. *)
cache_hit(cache, refresh) == cache # {} /\ ~refresh

(* load_pipe_materials(refresh): the outcome, whether the file was read *)
(* and the cache afterwards.                                            *)
load_pipe_materials(refresh, cache, content) ==
    IF cache_hit(cache, refresh)
    THEN [status |-> "ok", ret |-> cache, read |-> FALSE, cache |-> cache]
    ELSE IF read_materials(content).status # "ok"
    THEN [status |-> read_materials(content).status, ret |-> {}, read |-> TRUE,
          cache |-> cache]
    ELSE [status |-> "ok", ret |-> read_materials(content).mapping, read |-> TRUE,
          cache |-> read_materials(content).mapping]

-----------------------------------------------------------------------------
(* CacheSpec: calls of load_pipe_materials while the file may change. *)

MaxLoads == 3                     \* calls of load_pipe_materials

FileContents ==
    {"missing", "no valid codes", "concrete", "concrete and pvc", "malformed"}

Loaded == \E j \in 1..Len(load_calls) : load_calls[j].status = "ok"

CacheInit ==
    /\ SimIdle
    /\ PairIdle
    /\ FnIdle
    /\ CrossIdle
    /\ ResolveIdle
    /\ ConcIdle
    /\ EndpointIdle
    /\ ImportIdle
    /\ LoopIdle
    /\ BatchIdle
    /\ MonitorIdle
    /\ materials_file \in FileContents
    /\ _PIPE_MANNING_CACHE = {}
    /\ load_calls = <<>>

Load(refresh) ==
    /\ Len(load_calls) < MaxLoads
    /\ LET out == load_pipe_materials(refresh, _PIPE_MANNING_CACHE,
                                      materials_file)
       IN  /\ _PIPE_MANNING_CACHE' = out.cache
           /\ load_calls' = Append(load_calls,
                  [refresh |-> refresh, status |-> out.status, ret |-> out.ret,
                   read |-> out.read, loaded |-> Loaded,
                   cache_before |-> _PIPE_MANNING_CACHE,
                   file |-> materials_file])
    /\ UNCHANGED <<coreVars, importVars, loopVars, batchVars, monitorVars, materials_file>>

(* The file is replaced, created or deleted between two calls. *)
ChangeFile ==
    /\ Len(load_calls) < MaxLoads
    /\ \E content \in FileContents \ {materials_file} :
          materials_file' = content
    /\ UNCHANGED <<coreVars, importVars, loopVars, batchVars, monitorVars, _PIPE_MANNING_CACHE,
                   load_calls>>

CacheNext ==
    \/ \E refresh \in BOOLEAN : Load(refresh)
    \/ ChangeFile

CacheSpec == CacheInit /\ [][CacheNext]_vars

-----------------------------------------------------------------------------
(* src/src/urban_flooding/services/integrated_system.py:                  *)
(* IntegratedFloodSystem.continuous_monitoring.  max_iterations is <<>>   *)
(* for None and <<n>> for the number n.                                   *)

(* Line 273: while max_iterations is None or iteration < max_iterations *)
loop_continues(max_iterations, it) ==
    IF max_iterations = <<>> THEN TRUE ELSE it < max_iterations[1]

(* Faulty variant: the sleep taken after every cycle. *)
sleep_due_always(max_iterations, it) == TRUE

(* Line 302: if max_iterations is None or iteration < max_iterations *)
sleep_due(max_iterations, it) ==
    IF max_iterations = <<>> THEN TRUE ELSE it < max_iterations[1]

(* Lines 277-301: what one cycle does for the outcome of the weather     *)
(* fetch: no data, data without rain, data with rain (risk assessment).  *)
cycle_log(weather) ==
    IF weather = "rain" THEN <<"fetch", "assess">> ELSE <<"fetch">>

(* time.sleep(interval_minutes * 60) raises ValueError on a negative length. *)
sleep_raises(interval_minutes) == interval_minutes * 60 < 0

-----------------------------------------------------------------------------
(* LoopSpec: one call of continuous_monitoring, the weather fetch of each *)
(* cycle returning no data, data without rain or data with rain.          *)

MaxIterations == 3                \* largest max_iterations; cycles run for None

Intervals == {-1, 0, 30}

WeatherOutcomes == {"no data", "dry", "rain"}

LoopInit ==
    /\ SimIdle
    /\ PairIdle
    /\ FnIdle
    /\ CrossIdle
    /\ ResolveIdle
    /\ ConcIdle
    /\ EndpointIdle
    /\ ImportIdle
    /\ BatchIdle
    /\ MonitorIdle
    /\ CacheIdle
    /\ monitoring_args \in
          { [interval_minutes |-> m, max_iterations |-> n] :
              m \in Intervals,
              n \in {<<>>} \cup {<<k>> : k \in 0..MaxIterations} }
    /\ iteration = 0
    /\ monitoring_pc = "while"
    /\ monitoring_log = <<>>

otherVarsLoop ==
    <<coreVars, batchVars, monitorVars, cacheVars, importVars, monitoring_args>>

(* Lines 273-302: one pass of the loop body up to the sleep. *)
Cycle ==
    /\ monitoring_pc = "while"
    /\ loop_continues(monitoring_args.max_iterations, iteration)
    /\ iteration < MaxIterations
    /\ iteration' = iteration + 1
    /\ \E weather \in WeatherOutcomes :
          monitoring_log' = monitoring_log \o cycle_log(weather)
    /\ monitoring_pc' =
          IF sleep_due(monitoring_args.max_iterations, iteration + 1)
          THEN "sleep" ELSE "while"
    /\ UNCHANGED otherVarsLoop

(* Lines 303-306; the ValueError of a negative length is caught at line *)
(* 309 and ends the call.                                                *)
Sleep ==
    /\ monitoring_pc = "sleep"
    /\ IF sleep_raises(monitoring_args.interval_minutes)
       THEN /\ monitoring_log' = Append(monitoring_log, "ValueError")
            /\ monitoring_pc' = "returned"
       ELSE /\ monitoring_log' = Append(monitoring_log, "sleep")
            /\ monitoring_pc' = "while"
    /\ UNCHANGED <<otherVarsLoop, iteration>>

(* The loop condition is false: the method returns. *)
ReturnFromLoop ==
    /\ monitoring_pc = "while"
    /\ ~loop_continues(monitoring_args.max_iterations, iteration)
    /\ monitoring_pc' = "returned"
    /\ UNCHANGED <<otherVarsLoop, iteration, monitoring_log>>

LoopNext == Cycle \/ Sleep \/ ReturnFromLoop

LoopSpec == LoopInit /\ [][LoopNext]_vars /\ WF_vars(LoopNext)

-----------------------------------------------------------------------------
(* src/digital_twin/database/static_data_import.py:                       *)
(* import_spatial_catchments.  An input record says which catchment_id it *)
(* carries (<<>> when the key is absent), whether its numeric fields can  *)
(* be cast and whether it has the fields save_catchment_full requires.    *)

input_record(id, castable, complete) ==
    [catchment_id |-> id, castable |-> castable, complete |-> complete]

(* Lines 36-53: the casts and db.get_catchment(catchment['catchment_id']) *)
(* raise ValueError or KeyError.                                          *)
raises_before_count(r) == ~r.castable \/ r.catchment_id = <<>>

(* db.save_catchment_full raises: a required field is missing or the *)
(* write to the database fails.                                      *)
save_raises(r, write_fails) == ~r.complete \/ write_fails

counts(status, imported, updated, skipped, ids) ==
    [status |-> status, imported |-> imported, updated |-> updated,
     skipped |-> skipped, store |-> ids]

(* Lines 34-66 for the records from j on. *)
RECURSIVE import_loop(_, _, _, _, _, _, _)
import_loop(data, failing, j, ids, imported, updated, skipped) ==
    IF j > Len(data) THEN counts("ok", imported, updated, skipped, ids)
    ELSE IF raises_before_count(data[j])
    THEN import_loop(data, failing, j + 1, ids, imported, updated, skipped + 1)
    ELSE IF save_raises(data[j], j \in failing)
    THEN import_loop(data, failing, j + 1, ids,
                     IF data[j].catchment_id[1] \in ids THEN imported
                                                        ELSE imported + 1,
                     IF data[j].catchment_id[1] \in ids THEN updated + 1
                                                        ELSE updated,
                     skipped + 1)
    ELSE import_loop(data, failing, j + 1, ids \cup {data[j].catchment_id[1]},
                     IF data[j].catchment_id[1] \in ids THEN imported
                                                        ELSE imported + 1,
                     IF data[j].catchment_id[1] \in ids THEN updated + 1
                                                        ELSE updated,
                     skipped)

(* import_spatial_catchments(data, db), the database holding ids and *)
(* failing the writes of the records at the positions in failing.    *)
import_spatial_catchments(data, ids, failing) ==
    import_loop(data, failing, 1, ids, 0, 0, 0)

-----------------------------------------------------------------------------
(* ImportSpec: one call of import_spatial_catchments. *)

MaxImport == 3                    \* longest input list

InputRecords ==
    { input_record(<<"c1">>, TRUE, TRUE), input_record(<<"c2">>, TRUE, TRUE),
      input_record(<<"c2">>, TRUE, FALSE), input_record(<<"c3">>, FALSE, TRUE),
      input_record(<<>>, TRUE, TRUE) }

ImportInit ==
    /\ SimIdle
    /\ PairIdle
    /\ FnIdle
    /\ CrossIdle
    /\ ResolveIdle
    /\ ConcIdle
    /\ EndpointIdle
    /\ BatchIdle
    /\ MonitorIdle
    /\ CacheIdle
    /\ LoopIdle
    /\ import_data \in UNION {[1..m -> InputRecords] : m \in 0..MaxImport}
    /\ import_store \in {{}, {"c1"}}
    /\ save_failures \in SUBSET (1..Len(import_data))
    /\ import_out = NotImported

ImportAll ==
    /\ import_out = NotImported
    /\ LET out == import_spatial_catchments(import_data, import_store,
                                            save_failures)
       IN  /\ import_out' = [status |-> out.status, imported |-> out.imported,
                             updated |-> out.updated, skipped |-> out.skipped]
           /\ import_store' = out.store
    /\ UNCHANGED <<coreVars, batchVars, monitorVars, cacheVars, loopVars,
                   import_data, save_failures>>

ImportNext == ImportAll

ImportSpec == ImportInit /\ [][ImportNext]_vars

-----------------------------------------------------------------------------
(* FnSpec: the pure functions applied to arguments drawn from the inputs. *)

Loadings  == {0, 200, 500, 1000, 1800, 2000, 40000, 300000}   \* 0 .. 300.0
Steepness == {-3, 0, 1, 3, 8}
RunoffC   == {0, 7, 8, 10}
RunoffI   == {0, 1, 200, 250}
RunoffA   == {1, 15, 20}

CompressLoadings == {0, 500, 1000, 1001, 1002, 1003, 1500, 2500, 20000, 300000}

CapRain == {<<>>, <<1>>, <<50>>, <<1, 200>>, <<200, 1>>}
CapCA   == {<<0, 1>>, <<1, 1>>, <<10, 1>>, <<9, 4>>}     \* <<C, A_km2>>
CapQcap == {0, 1, 10, 20, 1000, 10^5, 10^7}              \* nano m^3/s

InvertLevels == {<<>>, <<0>>, <<9000>>, <<9500>>, <<10000>>, <<15000>>, <<60000>>}
PipeLengths  == {<<>>, <<-1000>>, <<0>>, <<1>>, <<5>>, <<10>>, <<11>>, <<5000>>,
                 <<25000>>, <<50000>>, <<100000>>}

MaxRisks == {0, 1, 100, 199, 200, 201, 399, 400, 401, 500, 599, 600, 601,
             799, 800, 801, 999, 1000}                   \* 0.000 .. 1.000

FnInit ==
    /\ SimIdle
    /\ PairIdle
    /\ CrossIdle
    /\ ResolveIdle
    /\ ConcIdle
    /\ EndpointIdle
    /\ ServicesIdle
    /\ fn_ret = <<>>
    /\ \/ fn = "q_runoff_m3s" /\ fn_args \in RunoffC \X RunoffI \X RunoffA
       \/ fn = "risk_from_loading" /\ fn_args \in Loadings \X Loadings \X Steepness
       \/ fn = "_compress_L_for_risk"
             /\ fn_args \in CompressLoadings \X CompressLoadings
       \/ fn = "adaptive_capacity"
             /\ \E rain \in CapRain, ca \in CapCA, q \in CapQcap :
                    fn_args = <<rain, ca[1], ca[2], q>>
       \/ fn = "calculate_pipe_grade"
             /\ fn_args \in InvertLevels \X InvertLevels \X PipeLengths
       \/ fn = "risk_level" /\ fn_args \in {<<r>> : r \in MaxRisks}

(* q_runoff_m3s(C, i_mmhr, A_km2) *)
Call_q_runoff_m3s ==
    /\ fn = "q_runoff_m3s" /\ fn_ret = <<>>
    /\ fn_ret' = <<q_runoff_m3s(fn_args[1], fn_args[2], fn_args[3])>>
    /\ UNCHANGED <<simVars, pairVars, crossVars, resolveVars, concVars, endpointVars, serviceVars, fn, fn_args>>

(* risk_from_loading(L1, k) and risk_from_loading(L2, k), both returning. *)
Call_risk_from_loading ==
    /\ fn = "risk_from_loading" /\ fn_ret = <<>>
    /\ ~risk_from_loading_raises(fn_args[1], fn_args[3])
    /\ ~risk_from_loading_raises(fn_args[2], fn_args[3])
    /\ fn_ret' = <<risk_from_loading(fn_args[1], fn_args[3]),
                   risk_from_loading(fn_args[2], fn_args[3])>>
    /\ UNCHANGED <<simVars, pairVars, crossVars, resolveVars, concVars, endpointVars, serviceVars, fn, fn_args>>

(* risk_from_loading where math.exp raises OverflowError. *)
Raise_risk_from_loading ==
    /\ fn = "risk_from_loading" /\ fn_ret = <<>>
    /\ \/ risk_from_loading_raises(fn_args[1], fn_args[3])
       \/ risk_from_loading_raises(fn_args[2], fn_args[3])
    /\ fn_ret' = <<"OverflowError">>
    /\ UNCHANGED <<simVars, pairVars, crossVars, resolveVars, concVars, endpointVars, serviceVars, fn, fn_args>>

(* _compress_L_for_risk(L1) and _compress_L_for_risk(L2) *)
Call__compress_L_for_risk ==
    /\ fn = "_compress_L_for_risk" /\ fn_ret = <<>>
    /\ fn_ret' = <<_compress_L_for_risk(fn_args[1]),
                   _compress_L_for_risk(fn_args[2])>>
    /\ UNCHANGED <<simVars, pairVars, crossVars, resolveVars, concVars, endpointVars, serviceVars, fn, fn_args>>

(* Lines 88-104 of simulate_catchment on (rain, C, A_km2, Qcap), Qcap and *)
(* Qcap_used in nano m^3/s.                                               *)
Call_adaptive_capacity ==
    /\ fn = "adaptive_capacity" /\ fn_ret = <<>>
    /\ fn_ret' = <<adaptive_capacity(InNano, fn_args[1], fn_args[2], fn_args[3],
                                     fn_args[4])>>
    /\ UNCHANGED <<simVars, pairVars, crossVars, resolveVars, concVars, endpointVars, serviceVars, fn, fn_args>>

(* Lines 77-88 of run_realtime_risk_assessment on max_risk. *)
Call_risk_level ==
    /\ fn = "risk_level" /\ fn_ret = <<>>
    /\ fn_ret' = <<risk_level(fn_args[1])>>
    /\ UNCHANGED <<simVars, pairVars, crossVars, resolveVars, concVars, endpointVars, serviceVars, fn, fn_args>>

(* calculate_pipe_grade(inv_us, inv_ds, length_m) *)
Call_calculate_pipe_grade ==
    /\ fn = "calculate_pipe_grade" /\ fn_ret = <<>>
    /\ fn_ret' = <<calculate_pipe_grade(fn_args[1], fn_args[2], fn_args[3])>>
    /\ UNCHANGED <<simVars, pairVars, crossVars, resolveVars, concVars, endpointVars, serviceVars, fn, fn_args>>

FnNext ==
    \/ Call_q_runoff_m3s
    \/ Call_risk_from_loading
    \/ Raise_risk_from_loading
    \/ Call__compress_L_for_risk
    \/ Call_adaptive_capacity
    \/ Call_risk_level
    \/ Call_calculate_pipe_grade

FnSpec == FnInit /\ [][FnNext]_vars

-----------------------------------------------------------------------------
(* Properties of simulate_catchment (Spec) *)

LengthsMatch == Len(rain_mmhr) = Len(timestamps_utc)
ValidParams  == C >= 0 /\ C <= 10 /\ A_km2 > 0 /\ Qcap_m3s >= 0
ValidRain    == \A j \in 1..Len(rain_mmhr) : rain_mmhr[j] >= 0
InvalidInput == ~LengthsMatch \/ A_km2 <= 0 \/ C < 0 \/ C > 10

RisksOf(series) == [j \in 1..Len(series) |-> series[j].R]

(* C1: the returned series has exactly len(rain_mmhr) points, and point j *)
(* carries rain_mmhr[j] and timestamps_utc[j].                            *)
C1_SeriesMatchesInput ==
    pc = "done" =>
        /\ Len(result.series) = Len(rain_mmhr)
        /\ \A j \in 1..Len(result.series) :
              /\ result.series[j].i = rain_mmhr[j]
              /\ result.series[j].t = timestamps_utc[j]

(* C2: on lists of different lengths, A_km2 <= 0 or C outside [0,1] the   *)
(* call raises and returns no result.                                     *)
C2_FailsFastOnInvalidInput ==
    InvalidInput => pc # "done"

(* C3: max_risk is the maximum of the R values of the returned points,    *)
(* and 0.0 when the series is empty.                                      *)
C3_MaxRiskIsSeriesMax ==
    pc = "done" =>
        result.max_risk = IF result.series = <<>> THEN 0
                          ELSE SeqMax(RisksOf(result.series))

C3_Witness ==
    /\ pc = "done"
    /\ Len(result.series) >= 2
    /\ result.series[1].R > result.series[Len(result.series)].R
    /\ result.max_risk = result.series[1].R

(* C7: with Qcap_m3s = 0 the call completes, and when some step has       *)
(* nonzero discharge (C > 0, A_km2 > 0, intensity > 0) max_risk > 0.99.   *)
C7_ZeroCapacitySaturates ==
    ( /\ pc # "call"
      /\ Qcap_m3s = 0 /\ C > 0 /\ A_km2 > 0
      /\ \E j \in 1..zip_len(rain_mmhr, timestamps_utc) : rain_mmhr[j] > 0 )
    => (pc = "done" /\ result.max_risk > 990)

(* C8: for valid inputs every returned point has 0 <= R <= 1,             *)
(* Qrunoff >= 0 and L >= 0.                                               *)
C8_PointsInRange ==
    (pc = "done" /\ ValidParams /\ ValidRain) =>
        \A j \in 1..Len(result.series) :
            /\ result.series[j].R >= 0 /\ result.series[j].R <= 1000
            /\ result.series[j].Qrunoff >= 0
            /\ result.series[j].L >= 0

C8_Witness ==
    /\ pc = "done" /\ impl = "adaptive" /\ ValidParams /\ ValidRain
    /\ Len(result.series) >= 2
    /\ \E j \in 1..Len(result.series) :
          /\ result.series[j].R > 0 /\ result.series[j].R < 1000
          /\ result.series[j].Qrunoff > 0
          /\ result.series[j].L > 1000

(* Rescaling applies: positive capacity, the discharge at the maximum     *)
(* intensity above Qcap * HEADROOM, the needed scale at most CAP_BOOST_MAX. *)
RescalingApplies ==
    /\ Qcap_m3s > 0 /\ rain_mmhr # <<>>
    /\ q_runoff_m3s(C, SeqMax(rain_mmhr), A_km2) > (Qcap_m3s * HEADROOM) \div 10
    /\ q_runoff_m3s(C, SeqMax(rain_mmhr), A_km2)
          <= CAP_BOOST_MAX * ((Qcap_m3s * HEADROOM) \div 10)

(* C10: whenever rescaling applies, L at the maximum-intensity step       *)
(* equals 1/HEADROOM (0.4).                                               *)
C10_PeakLoadingIsInverseHeadroom ==
    (pc = "done" /\ impl = "adaptive" /\ RescalingApplies) =>
        \A j \in 1..Len(result.series) :
            rain_mmhr[j] = SeqMax(rain_mmhr)
                => result.series[j].L = (10 * Milli) \div HEADROOM

(* C22: in the adaptive simulate_catchment max_risk lies in [0, 0.1]      *)
(* whenever the stored capacity is positive and the peak of the series   *)
(* triggers the capacity rescaling within the 50x cap.                   *)
C22_MaxRiskScaledDown ==
    (pc = "done" /\ impl = "adaptive" /\ RescalingApplies) =>
        (result.max_risk >= 0 /\ result.max_risk <= 100)

(* C23: within one adaptive call (C >= 0, A_km2 > 0), steps a and b with *)
(* rain_mmhr[a] <= rain_mmhr[b] have R[a] <= R[b] in the returned series. *)
C23_RiskMonotoneInIntensity ==
    (pc = "done" /\ impl = "adaptive" /\ C >= 0 /\ A_km2 > 0) =>
        \A a, b \in 1..Len(result.series) :
            rain_mmhr[a] <= rain_mmhr[b]
                => result.series[a].R <= result.series[b].R

C23_Witness ==
    /\ pc = "done" /\ impl = "adaptive" /\ C > 0 /\ A_km2 > 0
    /\ RescalingApplies
    /\ \E a, b \in 1..Len(result.series) :
          /\ a > b
          /\ rain_mmhr[a] < rain_mmhr[b]
          /\ result.series[a].R < result.series[b].R
          /\ result.series[b].L > 1000

-----------------------------------------------------------------------------
(* Properties of the paired run (PairSpec) *)

SameAt(j) == rain_mmhr[j] = rain_other[j]
CommonSteps == 1..Min(Len(result.series), Len(result_other.series))

(* C9: two series with the same intensity at step j, run with the same    *)
(* catchment parameters, yield the same R at step j.                      *)
C9_RiskDependsOnlyOnStep ==
    pc = "done" =>
        \A j \in CommonSteps :
            SameAt(j) => result.series[j].R = result_other.series[j].R

(* C9 as amended: the same R at step j when the two series also have the  *)
(* same maximum intensity (adaptive), or unconditionally (raw).           *)
C9_RiskDependsOnStepAndPeak ==
    pc = "done" =>
        \A j \in CommonSteps :
            ( /\ SameAt(j)
              /\ impl = "adaptive" => SeqMax(rain_mmhr) = SeqMax(rain_other) )
            => result.series[j].R = result_other.series[j].R

C9_Witness ==
    /\ pc = "done" /\ impl = "adaptive" /\ RescalingApplies
    /\ rain_mmhr # rain_other
    /\ Len(rain_mmhr) = Len(rain_other)
    /\ SeqMax(rain_mmhr) = SeqMax(rain_other)
    /\ \E j \in CommonSteps :
          /\ SameAt(j) /\ rain_mmhr[j] > 0
          /\ result.series[j].R = result_other.series[j].R

-----------------------------------------------------------------------------
(* Properties of the two-catchment run (CrossSpec) *)

(* Peak discharge of catchment p on the series, micro m^3/s. *)
PeakDischarge(p) == q_runoff_m3s(p.C, SeqMax(rain_mmhr), p.A_km2)

(* Raw peak loading of X >= that of Y:                                    *)
(* Qx / QcapX >= Qy / QcapY, both capacities positive.                    *)
RawPeakLoadingGeq(X, Y) ==
    PeakDischarge(X) * Y.Qcap_m3s >= PeakDischarge(Y) * X.Qcap_m3s

(* C12: for one rainfall series and two catchments of positive capacity,  *)
(* if X's raw peak loading is >= Y's then max_risk(X) >= max_risk(Y).     *)
C12_OrderingPreserved ==
    ( /\ pc = "done" /\ catchment_X.Qcap_m3s > 0 /\ catchment_Y.Qcap_m3s > 0
      /\ RawPeakLoadingGeq(catchment_X, catchment_Y) )
    => result.max_risk >= result_other.max_risk

(* The ordering is kept among catchments whose boosted capacity stays at  *)
(* or above the 1e-6 floor (CAP_BOOST_MAX * Qcap >= 1e-6).                *)
AboveFloor(p) == CAP_BOOST_MAX * p.Qcap_m3s >= InNano * QCAP_FLOOR
OrderingPreservedAboveFloor ==
    ( /\ pc = "done" /\ AboveFloor(catchment_X) /\ AboveFloor(catchment_Y)
      /\ RawPeakLoadingGeq(catchment_X, catchment_Y) )
    => result.max_risk >= result_other.max_risk

-----------------------------------------------------------------------------
(* Properties of find_catchment_for_point (ResolveSpec) *)

Records == {catchments[j] : j \in 1..Len(catchments)}

(* The record carries a polygon: geometry present and well formed. *)
HasPolygon(c) ==
    c.geometry.type = "Polygon" /\ Len(c.geometry.coordinates) >= 4

(* The supplied polygons that contain the point. *)
PolygonsContaining == {c \in Records : HasPolygon(c) /\ contains(c.geometry, lon, lat)}

(* Area a comes strictly before area b, a missing area last. *)
SmallerArea(a, b) == a # NaN /\ (b = NaN \/ a < b)

C15_SmallestAreaWins ==
    (pc = "done" /\ found # None) =>
        \A c \in PolygonsContaining : ~SmallerArea(c.A_km2, found.A_km2)

C15_Witness ==
    /\ pc = "done" /\ found # None
    /\ found # catchments[1]
    /\ catchments[1] \in PolygonsContaining
    /\ SmallerArea(found.A_km2, catchments[1].A_km2)

(* The records that carry only a bounding box, and those of them whose    *)
(* box contains the point.                                                *)
BoundsOnly(c) == c.geometry = NoGeometry /\ c.bounds # NoBounds
BoxesContaining ==
    {c \in Records : /\ BoundsOnly(c)
                     /\ c.bounds.min_lon <= lon /\ lon <= c.bounds.max_lon
                     /\ c.bounds.min_lat <= lat /\ lat <= c.bounds.max_lat}

(* C16: when no polygon contains the point, the call returns the          *)
(* smallest-area bounds-only record whose box contains it.                *)
C16_FallsBackToBoundingBox ==
    (pc = "done" /\ PolygonsContaining = {} /\ BoxesContaining # {}) =>
        /\ found \in BoxesContaining
        /\ \A c \in BoxesContaining : ~SmallerArea(c.A_km2, found.A_km2)

(* The list with the records of missing or malformed geometry removed. *)
WithoutBadRecords == SelectSeq(catchments, HasPolygon)

C18_InputUnchanged == [][catchments' = catchments]_vars

C18_Witness ==
    /\ pc = "done" /\ found \in PolygonsContaining
    /\ \E j \in 1..Len(catchments) : ~HasPolygon(catchments[j])

-----------------------------------------------------------------------------
(* Properties of concurrent calls (ConcSpec) *)

(* What call c returns when it runs alone on its arguments. *)
RunAlone(c) ==
    LET a == calls[c].args
    IN  IF calls[c].fn = "simulate_catchment"
        THEN {simulate_catchment(InMicro, a.rain_mmhr, a.timestamps_utc, a.C,
                                 a.A_km2, a.Qcap_m3s)}
        ELSE find_catchment_for_point(a.catchments, a.lon, a.lat)

Finished(c) == calls[c].pc \in {"done", "raised"}

(* C19: under every interleaving of concurrent calls, each call returns   *)
(* the result it returns when run alone on its own arguments.             *)
C19_CallsAreIndependent ==
    \A c \in DOMAIN calls : Finished(c) => calls[c].ret \in RunAlone(c)

C19_Witness ==
    /\ calls # <<>>
    /\ \A c \in DOMAIN calls : Finished(c)
    /\ \E c, d \in DOMAIN calls :
          /\ c # d /\ calls[c].fn = calls[d].fn /\ calls[c].ret # calls[d].ret
    /\ \E c \in DOMAIN calls : calls[c].fn = "simulate_catchment"
                                 /\ Len(calls[c].ret.series) = 2

-----------------------------------------------------------------------------
(* Properties of POST /risk/point (EndpointSpec) *)

NoCatchmentMatches ==
    find_catchment_for_point(db.catchments, request.lon, request.lat) = {None}

(* C20: when no catchment matches the point of an authenticated request  *)
(* (an empty catchment store included), the response is 404 and no       *)
(* rainfall-event lookup, weather fetch, simulation run or simulation    *)
(* write has taken place.                                                *)
C20_MissingCatchmentIs404 ==
    (pc = "responded" /\ request.authorization = "valid" /\ NoCatchmentMatches)
        => /\ response.status_code = 404
           /\ effects \cap {"get_rainfall_event", "weather_fetch",
                             "simulate_catchment", "save_simulation"} = {}

-----------------------------------------------------------------------------
(* Properties of the pure functions (FnSpec) *)

RiskReturned   == fn = "risk_from_loading" /\ Len(fn_ret) = 2
RunoffReturned == fn = "q_runoff_m3s" /\ Len(fn_ret) = 1

(* C4: risk_from_loading(1.0, k) is exactly 0.5 for every k. *)
C4_MidpointIsHalf ==
    RiskReturned =>
        /\ fn_args[1] = 1000 => fn_ret[1] = Fine \div 2
        /\ fn_args[2] = 1000 => fn_ret[2] = Fine \div 2

C4_Witness ==
    /\ RiskReturned
    /\ fn_args[1] = 1000 /\ fn_args[2] # 1000 /\ fn_args[3] = K_DEFAULT
    /\ fn_ret[1] = Fine \div 2 /\ fn_ret[2] # Fine \div 2

C6_RunoffIsRationalFormula ==
    RunoffReturned =>
        /\ fn_ret[1] = 278 * (fn_args[1] * fn_args[2] * fn_args[3])
        /\ fn_args = <<8, 250, 15>> => fn_ret[1] = 8340000

C6_Witness ==
    /\ RunoffReturned
    /\ fn_args = <<8, 250, 15>>
    /\ fn_ret = <<8340000>>

CapacityReturned == fn = "adaptive_capacity" /\ Len(fn_ret) = 1

(* C11: for every Qcap_m3s > 0 and every rainfall series,                 *)
(* Qcap_m3s <= Qcap_used <= CAP_BOOST_MAX * Qcap_m3s.                     *)
C11_BoostWithinCap ==
    (CapacityReturned /\ fn_args[4] > 0) =>
        /\ fn_args[4] <= fn_ret[1]
        /\ fn_ret[1] <= CAP_BOOST_MAX * fn_args[4]

(* What does hold: Qcap_m3s <= Qcap_used <= max(CAP_BOOST_MAX * Qcap_m3s, *)
(* 1e-6), the second bound being the floor of line 104.                   *)
BoostWithinCapOrFloor ==
    (CapacityReturned /\ fn_args[4] > 0) =>
        /\ fn_args[4] <= fn_ret[1]
        /\ fn_ret[1] <= Max(CAP_BOOST_MAX * fn_args[4], InNano * QCAP_FLOOR)

CompressReturned == fn = "_compress_L_for_risk" /\ Len(fn_ret) = 2

BandLabel(max_risk) ==
    IF max_risk < 200 THEN "very_low"
    ELSE IF max_risk < 400 THEN "low"
    ELSE IF max_risk < 600 THEN "medium"
    ELSE IF max_risk < 800 THEN "high"
    ELSE "very_high"

LevelReturned == fn = "risk_level" /\ fn_ret # <<>>

(* C21: the risk level of max_risk is very_low below 0.2, low in          *)
(* [0.2, 0.4), medium in [0.4, 0.6), high in [0.6, 0.8) and very_high     *)
(* from 0.8: exactly one of the five labels for every max_risk in [0, 1]. *)
C21_LevelIsBandLabel ==
    LevelReturned => fn_ret[1] = BandLabel(fn_args[1])

GradeReturned == fn = "calculate_pipe_grade" /\ fn_ret # <<>>

(* (rise / length) * 100 clamped: 0.1 when it is <= 0, 50 when it is > 50. *)
ClampedGrade(rise, length) ==
    IF rise <= 0 THEN 100
    ELSE IF 2 * rise > length THEN 50000
    ELSE MulDiv(rise, 10^5, length)

(* C24: calculate_pipe_grade returns None when an input is missing or     *)
(* length_m is below 0.01 m, and otherwise the grade clamped to 0.1 when  *)
(* it is <= 0 and to 50 when it is > 50, a value in (0, 50].              *)
C24_GradeOrNone ==
    GradeReturned =>
        IF \/ fn_args[1] = <<>> \/ fn_args[2] = <<>> \/ fn_args[3] = <<>>
        THEN fn_ret[1] = <<>>
        ELSE IF fn_args[3][1] < 10
        THEN fn_ret[1] = <<>>
        ELSE /\ fn_ret[1] =
                  <<ClampedGrade(fn_args[1][1] - fn_args[2][1], fn_args[3][1])>>
             /\ fn_ret[1][1] > 0 /\ fn_ret[1][1] <= 50000

-----------------------------------------------------------------------------
(* Properties of run_batch_simulation (BatchSpec) *)

Misaligned == Len(batch_args.rain_mmhr) # Len(batch_args.timestamps_utc)

(* C25: when len(rain_mmhr) != len(timestamps_utc) the call raises       *)
(* ValueError having opened no database, simulated no catchment and      *)
(* created or written no file or directory.                              *)
C25_FailsFastOnMisalignment ==
    [][ (Misaligned /\ batch_out = NotRun) =>
            /\ batch_out'.status = "ValueError"
            /\ batch_out'.log = <<>>
            /\ fs' = fs ]_vars

C25_Witness ==
    /\ Misaligned
    /\ batch_out.status = "ValueError"
    /\ batch_store # <<>> /\ batch_args.output_file = "None"
    /\ batch_args.rain_mmhr # <<>> /\ batch_args.timestamps_utc # <<>>

-----------------------------------------------------------------------------
(* Properties of run_realtime_risk_assessment (MonitorSpec) *)

Assessed == monitor_out.status = "ok"

Evaluated == {monitor_out.results[j].catchment_id : j \in 1..Len(monitor_out.results)}

Eligible ==
    {j \in 1..Len(monitor_store) : monitor_store[j].Qcap_m3s <= 50 * Micro}

(* C26: without catchment_ids the catchments simulated are the 10 of     *)
(* smallest Qcap_m3s among the stored ones with Qcap_m3s <= 50 (all of   *)
(* them when there are fewer than 10): no stored catchment of smaller    *)
(* capacity than an evaluated one is left out.                           *)
C26_LowestCapacityEvaluated ==
    (Assessed /\ monitor_args.catchment_ids = <<>>) =>
        /\ Cardinality(Evaluated) = Min(10, Cardinality(Eligible))
        /\ \A j \in Eligible :
              \/ monitor_store[j].catchment_id \in Evaluated
              \/ \A h \in Eligible :
                    monitor_store[h].catchment_id \in Evaluated
                        => monitor_store[h].Qcap_m3s <= monitor_store[j].Qcap_m3s

(* C30: every simulation document saved by run_realtime_risk_assessment *)
(* records as k the steepness simulate_catchment used for its series.   *)
C30_StoredSteepnessIsUsed ==
    \A j \in 1..Len(simulations) : simulations[j].k = K_SIMULATE

-----------------------------------------------------------------------------
(* Properties of load_pipe_materials (CacheSpec) *)

(* C27: after the first load, a call with refresh=False returns the     *)
(* cached mapping without reading the file (also when the file was      *)
(* missing or gave no valid codes), and a call with refresh=True reads  *)
(* the file and replaces the cache.                                     *)
C27_LoadedOnceAndMemoized ==
    \A j \in 1..Len(load_calls) :
        /\ (load_calls[j].loaded /\ ~load_calls[j].refresh) =>
                /\ ~load_calls[j].read
                /\ load_calls[j].ret = load_calls[j].cache_before
        /\ load_calls[j].refresh =>
                /\ load_calls[j].read
                /\ load_calls[j].status = "ok" =>
                       load_calls[j].ret = read_materials(load_calls[j].file).mapping

-----------------------------------------------------------------------------
(* Properties of continuous_monitoring (LoopSpec) *)

Count(log, what) == Len(SelectSeq(log, LAMBDA x : x = what))

BoundedRun ==
    /\ monitoring_args.max_iterations # <<>>
    /\ monitoring_args.max_iterations[1] >= 1

(* n cycles with one fetch each, n - 1 sleeps, each of them between two *)
(* cycles.                                                              *)
ExactlyNCycles ==
    /\ iteration = monitoring_args.max_iterations[1]
    /\ Count(monitoring_log, "fetch") = monitoring_args.max_iterations[1]
    /\ Count(monitoring_log, "sleep") = monitoring_args.max_iterations[1] - 1
    /\ \A j \in 1..Len(monitoring_log) :
          monitoring_log[j] = "sleep" =>
              /\ j > 1 /\ j < Len(monitoring_log)
              /\ monitoring_log[j + 1] = "fetch"

-----------------------------------------------------------------------------
(* Properties of import_spatial_catchments (ImportSpec) *)

(* C29: the returned counts satisfy imported + updated + skipped =       *)
(* len(data), whichever saves fail: a record whose save fails is counted *)
(* only as skipped.                                                      *)
C29_EveryRecordCountedOnce ==
    import_out.status = "ok" =>
        import_out.imported + import_out.updated + import_out.skipped
            = Len(import_data)

====
